---- MODULE Spec2Model ----
(***************************************************************************)
(* A model of BoatsetterClient (src/src/lib/boatsetter-client.ts): the     *)
(* browser session it owns, the calendar month navigation, the per-day     *)
(* availability editor and the date-range iteration, together with the     *)
(* JavaScript string, number and Date primitives the code relies on.       *)
(*                                                                         *)
(* Text is modelled as a sequence of one-letter strings, so that split,    *)
(* parseInt, indexOf, includes, template formatting and toISOString are    *)
(* computed letter by letter as the engine computes them.                  *)
(***************************************************************************)
EXTENDS Integers, Sequences, FiniteSets, TLC

(***************************************************************************)
(* JavaScript values                                                       *)
(***************************************************************************)

\* null and undefined are not strings: a string is a sequence of one-letter
\* strings, and neither marker is one.
Null == <<"null">>
Undefined == <<"undefined">>

\* A JavaScript number: an integer or NaN.
NaN == [nan |-> TRUE, v |-> 0]
Num(n) == [nan |-> FALSE, v |-> n]
IsNaN(x) == x.nan

\* a - b, a + b, a * b on numbers: NaN is absorbing.
JsSub(a, b) == IF a.nan \/ b.nan THEN NaN ELSE Num(a.v - b.v)
JsAdd(a, b) == IF a.nan \/ b.nan THEN NaN ELSE Num(a.v + b.v)
JsMul(a, b) == IF a.nan \/ b.nan THEN NaN ELSE Num(a.v * b.v)
\* a > b, a < b, a <= b: every comparison with NaN is false.
JsGt(a, b) == ~a.nan /\ ~b.nan /\ a.v > b.v
JsLt(a, b) == ~a.nan /\ ~b.nan /\ a.v < b.v
JsLe(a, b) == ~a.nan /\ ~b.nan /\ a.v <= b.v
\* Math.abs
JsAbs(a) == IF a.nan THEN NaN ELSE Num(IF a.v < 0 THEN -a.v ELSE a.v)

\* x || d for a string-or-nullish x: '' , null and undefined are falsy.
OrElse(x, d) == IF x = Null \/ x = Undefined \/ x = <<>> THEN d ELSE x

DigitChars == <<"0","1","2","3","4","5","6","7","8","9">>
IsDigit(c) == \E i \in 1..10 : DigitChars[i] = c
DigitVal(c) == (CHOOSE i \in 1..10 : DigitChars[i] = c) - 1

RECURSIVE NatToString(_)
NatToString(n) ==
    IF n < 10 THEN <<DigitChars[n + 1]>>
    ELSE NatToString(n \div 10) \o <<DigitChars[(n % 10) + 1]>>

\* String(x) of a number, as a template literal `${x}` formats it.
NumToString(x) ==
    IF x.nan THEN <<"N","a","N">>
    ELSE IF x.v < 0 THEN <<"-">> \o NatToString(-x.v)
    ELSE NatToString(x.v)

\* String(x) of a string-or-undefined, as `${x}` and includes(x) coerce it.
ToText(x) ==
    IF x = Undefined THEN <<"u","n","d","e","f","i","n","e","d">>
    ELSE IF x = Null THEN <<"n","u","l","l">>
    ELSE x

\* Left-padding with zeros to a width, as toISOString pads its fields.
RECURSIVE PadZero(_, _)
PadZero(s, width) == IF Len(s) >= width THEN s ELSE PadZero(<<"0">> \o s, width)

\* The value of the longest prefix of digits of s, from accumulator acc.
RECURSIVE DigitsValue(_, _)
DigitsValue(s, acc) ==
    IF s = <<>> \/ ~IsDigit(Head(s)) THEN acc
    ELSE DigitsValue(Tail(s), acc * 10 + DigitVal(Head(s)))

RECURSIVE SkipSpaces(_)
SkipSpaces(s) == IF s # <<>> /\ Head(s) = " " THEN SkipSpaces(Tail(s)) ELSE s

\* parseInt(s, 10): leading white space, an optional sign, then the longest
\* run of digits; NaN when there is no digit.
parseInt(s) ==
    LET t == SkipSpaces(s)
        neg == t # <<>> /\ Head(t) = "-"
        u == IF t # <<>> /\ Head(t) \in {"-", "+"} THEN Tail(t) ELSE t
    IN  IF u = <<>> \/ ~IsDigit(Head(u)) THEN NaN
        ELSE Num(IF neg THEN -DigitsValue(u, 0) ELSE DigitsValue(u, 0))

\* s.split(sep) for a one-letter separator: always at least one piece.
RECURSIVE SplitFrom(_, _, _)
SplitFrom(s, sep, cur) ==
    IF s = <<>> THEN <<cur>>
    ELSE IF Head(s) = sep THEN <<cur>> \o SplitFrom(Tail(s), sep, <<>>)
    ELSE SplitFrom(Tail(s), sep, Append(cur, Head(s)))

split(s, sep) == SplitFrom(s, sep, <<>>)

\* arr[i] of array destructuring and indexing (0-based): undefined outside.
At(arr, i) == IF i \in 0..(Len(arr) - 1) THEN arr[i + 1] ELSE Undefined

indexOfOrFirst(arr, x) ==
    IF \E i \in 1..Len(arr) : arr[i] = x
    THEN (CHOOSE i \in 1..Len(arr) : arr[i] = x /\ \A j \in 1..(i - 1) : arr[j] # x) - 1
    ELSE 0

\* arr.indexOf(x): the first 0-based position of x, or -1.
indexOf(arr, x) ==
    IF \E i \in 1..Len(arr) : arr[i] = x
    THEN (CHOOSE i \in 1..Len(arr) : arr[i] = x /\ \A j \in 1..(i - 1) : arr[j] # x) - 1
    ELSE -1

\* s.includes(sub): sub occurs in s as a run of consecutive letters.
includes(s, sub) ==
    \E i \in 0..(Len(s) - Len(sub)) : SubSeq(s, i + 1, i + Len(sub)) = sub

(***************************************************************************)
(* The Date object: a time value in hours since 1970-01-01T00:00Z, or NaN  *)
(* for an Invalid Date.  Field access is in the host's local time.         *)
(***************************************************************************)

IsLeap(y) == (y % 4 = 0 /\ y % 100 # 0) \/ y % 400 = 0

DaysInMonth(y, m) ==
    IF m = 2 THEN (IF IsLeap(y) THEN 29 ELSE 28)
    ELSE IF m \in {4, 6, 9, 11} THEN 30 ELSE 31

\* Days from 1970-01-01 to the civil date y-m-d (m in 1..12), proleptic
\* Gregorian calendar; m and d may be out of range by less than a year and
\* carry over, as MakeDay does.
DaysFromCivil(y, m, d) ==
    LET yy == IF m <= 2 THEN y - 1 ELSE y
        era == yy \div 400
        yoe == yy - era * 400
        mp == IF m > 2 THEN m - 3 ELSE m + 9
        doy == (153 * mp + 2) \div 5 + d - 1
        doe == yoe * 365 + yoe \div 4 - yoe \div 100 + doy
    IN  era * 146097 + doe - 719468

\* The civil date of a day number: [y, m (1..12), d].
CivilFromDays(z0) ==
    LET z == z0 + 719468
        era == z \div 146097
        doe == z - era * 146097
        yoe == (doe - doe \div 1460 + doe \div 36524 - doe \div 146096) \div 365
        doy == doe - (365 * yoe + yoe \div 4 - yoe \div 100)
        mp == (5 * doy + 2) \div 153
        d == doy - (153 * mp + 2) \div 5 + 1
        m == IF mp < 10 THEN mp + 3 ELSE mp - 9
        y == yoe + era * 400 + (IF m <= 2 THEN 1 ELSE 0)
    IN  [y |-> y, m |-> m, d |-> d]

HoursPerDay == 24

\* The host time zone: a standard offset from UTC in hours and, when hasDst,
\* one daylight-saving transition at the instant `at`, after which the
\* offset is `dst`.
FixedZone(off) == [std |-> off, hasDst |-> FALSE, at |-> 0, dst |-> off]
DstZone(off, at, dst) == [std |-> off, hasDst |-> TRUE, at |-> at, dst |-> dst]

\* The offset in force at the instant t.
OffsetAt(z, t) == IF z.hasDst /\ t >= z.at THEN z.dst ELSE z.std

\* LocalTime(t) and its inverse UTC(local), as the field setters use it: a
\* local time that exists twice or not at all is read with the offset in
\* force before the transition.
LocalTime(z, t) == t + OffsetAt(z, t)
UTCOf(z, local) ==
    IF ~z.hasDst \/ local - z.std < z.at THEN local - z.std
    ELSE IF local - z.dst >= z.at THEN local - z.dst
    ELSE local - z.std

\* Local fields of a valid time value.
LocalFields(z, t) == CivilFromDays(LocalTime(z, t) \div HoursPerDay)
UTCFields(t) == CivilFromDays(t \div HoursPerDay)

IsDateOnly(s) ==
    /\ Len(s) = 10
    /\ s[5] = "-" /\ s[8] = "-"
    /\ \A i \in {1, 2, 3, 4, 6, 7, 9, 10} : IsDigit(s[i])

\* new Date(s) for a string: the date-only form YYYY-MM-DD is UTC midnight
\* of that day; anything else, or a month or day that does not exist, is an
\* Invalid Date.
DateFromString(s) ==
    IF ~IsDateOnly(s) THEN NaN
    ELSE LET y == DigitsValue(SubSeq(s, 1, 4), 0)
             m == DigitsValue(SubSeq(s, 6, 7), 0)
             d == DigitsValue(SubSeq(s, 9, 10), 0)
         IN  IF m \in 1..12 /\ d \in 1..DaysInMonth(y, m)
             THEN Num(DaysFromCivil(y, m, d) * HoursPerDay)
             ELSE NaN

\* getMonth() (0..11), getFullYear(), getDate(): local fields, NaN when invalid.
getMonth(z, t) == IF t.nan THEN NaN ELSE Num(LocalFields(z, t.v).m - 1)
getFullYear(z, t) == IF t.nan THEN NaN ELSE Num(LocalFields(z, t.v).y)
getDate(z, t) == IF t.nan THEN NaN ELSE Num(LocalFields(z, t.v).d)

\* setDate(n): the local day-of-month becomes n (carrying into the next
\* month), the local time of day is kept, and the result is converted back
\* to UTC.
setDate(z, t, n) ==
    IF t.nan \/ n.nan THEN NaN
    ELSE LET loc == LocalTime(z, t.v)
             f == CivilFromDays(loc \div HoursPerDay)
             tod == loc % HoursPerDay
         IN  Num(UTCOf(z, (DaysFromCivil(f.y, f.m, 1) + n.v - 1) * HoursPerDay + tod))

\* toISOString().split('T')[0] of a valid time value: the UTC date,
\* zero-padded (years 0..9999).
ISODate(t) ==
    LET f == UTCFields(t)
    IN  PadZero(NatToString(f.y), 4) \o <<"-">> \o PadZero(NatToString(f.m), 2)
            \o <<"-">> \o PadZero(NatToString(f.d), 2)

\* Nombres de meses en inglés.
meses ==
  << <<"J","a","n","u","a","r","y">>,
     <<"F","e","b","r","u","a","r","y">>,
     <<"M","a","r","c","h">>,
     <<"A","p","r","i","l">>,
     <<"M","a","y">>,
     <<"J","u","n","e">>,
     <<"J","u","l","y">>,
     <<"A","u","g","u","s","t">>,
     <<"S","e","p","t","e","m","b","e","r">>,
     <<"O","c","t","o","b","e","r">>,
     <<"N","o","v","e","m","b","e","r">>,
     <<"D","e","c","e","m","b","e","r">> >>


(***************************************************************************)
(* Bounds of the model                                                     *)
(***************************************************************************)

\* The site's calendar shows CalSpan consecutive months, the first being
\* month CalFirstMonth (1..12) of year CalFirstYear; a click that would leave
\* this window has no effect.
CalSpan == 8
\* A navigation loop is followed for at most MaxClicks clicks.
MaxClicks == 30
\* Browsers one client launches.
MaxLaunches == 2

CalFirstYear == 2024
CalFirstMonth == 11

(***************************************************************************)
(* State                                                                   *)
(***************************************************************************)

VARIABLES
    browser,      \* this.browser: NoHandle or the id of a launched browser
    context,      \* this.context
    page,         \* this.page
    isLoggedIn,   \* this.isLoggedIn
    lastLogin,    \* how the most recent login call that returned on this client ended
    launched,     \* browsers launched so far by this client
    openBrowsers, \* ids of the launched browsers that are still open
    tz,           \* the host time zone
    uiMode,       \* how the site answers month clicks: "calendar" or "stuck"
    render,       \* how the site writes the .Calendar-month-year label
    today,        \* the month a freshly loaded calendar shows
    calMonth,     \* the month the calendar shows, as year * 12 + month index
    url,          \* where the page is
    siteAuth,     \* the site shows a logged-in indicator
    editor,       \* the day editor form of the calendar page
    boatActive,   \* the listing's status toggle reads Active
    nav,          \* the running navigateToMonth call
    sda,          \* the running setDateAvailability call
    rng,          \* the running setDateRangeAvailability call
    outcome,      \* how the last top-level call ended
    obs           \* what the running (or last) call did to the UI

clientVars == <<browser, context, page, isLoggedIn, lastLogin, launched, openBrowsers>>
envVars == <<tz, uiMode, render, today>>
siteVars == <<calMonth, url, siteAuth, editor, boatActive>>
vars == <<browser, context, page, isLoggedIn, lastLogin, launched, openBrowsers, tz, uiMode,
          render, today, calMonth, url, siteAuth, editor, boatActive, nav, sda, rng,
          outcome, obs>>

Boats == {"b1", "b2"}

\* A field of the client that holds no browser, context or page (null);
\* the handles of launched browsers are 1, 2, ...
NoHandle == 0

(***************************************************************************)
(* The site, as the client sees it                                         *)
(***************************************************************************)

CalMin == CalFirstYear * 12 + (CalFirstMonth - 1)
CalMax == CalMin + CalSpan - 1

Location(kind, boat) == [kind |-> kind, boat |-> boat]
HomePage == Location("home", "")
OwnerBoats == Location("ownerBoats", "")
\* url.includes('/owner/boats')
OnOwnerBoats(u) == u.kind = "ownerBoats"
\* url.includes(`/boats/${boatId}`): the edit pages and the calendar of the boat
OnBoatPages(u, boatId) == u.kind \in {"edit", "calendar"} /\ u.boat = boatId
\* the calendar editor, with its month label and buttons, is on the page
OnCalendar(u) == u.kind = "calendar"

RenderModes == {"english", "padded", "monthOnly", "empty", "null"}

\* The text of the .Calendar-month-year element for the month shown:
\* "March 2025" as the site writes it, or one of the malformed variants.
LabelText(mode, cm) ==
    LET name == meses[(cm % 12) + 1]
        year == NatToString(cm \div 12)
    IN  CASE mode = "english" -> name \o <<" ">> \o year
          [] mode = "padded" -> name \o <<" ">> \o year \o <<" ">>
          [] mode = "monthOnly" -> name
          [] mode = "empty" -> <<>>
          [] OTHER -> Null

\* textContent() of the label now.
label == LabelText(render, calMonth)

\* The month shown after a click on "next month" (step = 1) or "previous
\* month" (step = -1).
MonthAfterClick(mode, cm, step) ==
    IF mode = "calendar" /\ cm + step \in CalMin..CalMax THEN cm + step ELSE cm

(***************************************************************************)
(* Calls, results and observations                                         *)
(***************************************************************************)

NoOutcome == [op |-> "none", kind |-> "none", value |-> FALSE, boats |-> <<>>,
              message |-> <<>>, session |-> FALSE]
\* The call returned a boolean.
Returned(op, v) == [op |-> op, kind |-> "returned", value |-> v, boats |-> <<>>,
                    message |-> <<>>, session |-> TRUE]
\* 'El cliente no está inicializado. Llama a initialize() primero.'
NotInitializedMessage ==
    <<"El", "cliente", "no", "está", "inicializado.", "Llama", "a", "initialize()", "primero.">>
\* The call rejected with that error.
NotInitialized(op) == [op |-> op, kind |-> "raised", value |-> FALSE, boats |-> <<>>,
                       message |-> NotInitializedMessage, session |-> FALSE]
\* The call rejected with an error of the browser.
BrowserError(op, session) == [op |-> op, kind |-> "raised", value |-> FALSE, boats |-> <<>>,
                              message |-> <<"browser", "error">>, session |-> session]

\* What a login call leaves in obs about itself: the credentials, whether
\* the form was submitted, the indicators then shown, whether they could be
\* counted, and this.isLoggedIn before the call.
NoLogin == [credentials |-> "none", submitted |-> FALSE, shown |-> {}, counted |-> FALSE,
            before |-> FALSE]

\* What a toggleBoatStatus call leaves in obs about itself: the argument,
\* the listing's state before the call, whether editBoat succeeded and the
\* text of the toggle was read, and, when
\* the call before it on this client was a toggleBoatStatus that returned,
\* that call's argument and whether it changed the state.
NoToggle == [activate |-> FALSE, before |-> FALSE, edited |-> FALSE, read |-> FALSE,
             follows |-> FALSE, lastActivate |-> FALSE, lastChanged |-> FALSE]

NoObs == [nextClicks |-> 0, prevClicks |-> 0, startLabel |-> Null, uiFailed |-> FALSE,
          hardFailed |-> FALSE, acted |-> FALSE, navActions |-> 0, toggleClicks |-> 0, switchClicks |-> 0,
          addRangeClicks |-> 0, calls |-> <<>>,
          results |-> <<>>, steps |-> <<>>, session |-> FALSE, login |-> NoLogin,
          toggle |-> NoToggle]

\* The editor form of a calendar day: closed, or open on a day cell.
\* saved holds what 'Save Changes' stored since the page was loaded, if
\* anything.
EditorClosed == [open |-> FALSE, day |-> <<>>, checked |-> FALSE, rows |-> <<>>,
                 price |-> <<>>, saved |-> <<>>]
\* The form after a one-step operation that ended on url r.url: a page load
\* leaves it closed.
EditorAfter(r) == IF r.url = url THEN editor ELSE EditorClosed

DateArg(t) == [isString |-> FALSE, s |-> <<>>, t |-> t]
StringArg(s) == [isString |-> TRUE, s |-> s, t |-> NaN]

NavIdle == [pc |-> "idle", caller |-> "none", date |-> DateArg(NaN), targetDate |-> NaN,
            targetMonth |-> Undefined, targetYear |-> NaN, targetMonthYear |-> <<>>,
            currentMonthYear |-> Null, monthDiff |-> NaN, i |-> 0,
            result |-> FALSE, threw |-> FALSE]
SdaIdle == [pc |-> "idle", caller |-> "none", result |-> FALSE]
RngIdle == [pc |-> "idle"]

(***************************************************************************)
(* navigateToMonth(date)                                                   *)
(***************************************************************************)

\* typeof date === 'string' ? new Date(date) : date
TargetDate(date) == IF date.isString THEN DateFromString(date.s) ELSE date.t

TargetMonthOrJanuary(z, targetDate) ==
    LET m == getMonth(z, targetDate)
    IN  IF m.nan THEN At(meses, 0) ELSE At(meses, m.v)

\* meses[targetDate.getMonth()]
TargetMonth(z, targetDate) ==
    LET m == getMonth(z, targetDate)
    IN  IF m.nan THEN Undefined ELSE At(meses, m.v)

\* `${targetMonth} ${targetYear}`
TargetMonthYear(z, targetDate) ==
    ToText(TargetMonth(z, targetDate)) \o <<" ">> \o NumToString(getFullYear(z, targetDate))

MonthDiffYearAsMonth(z, currentMonthYear, targetDate) ==
    LET parts == split(OrElse(currentMonthYear, <<>>), " ")
        currentYear == parseInt(OrElse(At(parts, 1), <<"0">>))
        currentMonthIndex == Num(indexOf(meses, OrElse(At(parts, 0), <<>>)))
    IN  JsAdd(JsSub(getMonth(z, targetDate), currentMonthIndex),
              JsSub(getFullYear(z, targetDate), currentYear))

\* The difference in months between the label read and the target:
\* targetMonthIndex - currentMonthIndex + (targetYear - currentYear) * 12.
MonthDiff(z, currentMonthYear, targetDate) ==
    LET parts == split(OrElse(currentMonthYear, <<>>), " ")
        currentMonth == At(parts, 0)
        currentYearStr == At(parts, 1)
        currentYear == parseInt(OrElse(currentYearStr, <<"0">>))
        currentMonthIndex == Num(indexOf(meses, OrElse(currentMonth, <<>>)))
        targetMonthIndex == getMonth(z, targetDate)
        yearDiff == JsSub(getFullYear(z, targetDate), currentYear)
    IN  JsAdd(JsSub(targetMonthIndex, currentMonthIndex), JsMul(yearDiff, Num(12)))

ArrivedExactly(newMonthYear, targetMonth) == newMonthYear = ToText(targetMonth)

\* newMonthYear?.includes(targetMonth)
Arrived(newMonthYear, targetMonth) ==
    newMonthYear # Null /\ includes(newMonthYear, ToText(targetMonth))

\* currentMonthYear === targetMonthYear
AlreadyThereNever(currentMonthYear, targetMonthYear) == FALSE
AlreadyThere(currentMonthYear, targetMonthYear) == currentMonthYear = targetMonthYear

\* The entry of navigateToMonth, up to the first await.
NavEnter(date, caller) ==
    LET targetDate == TargetDate(date)
    IN  [NavIdle EXCEPT !.pc = "read", !.caller = caller, !.date = date,
                        !.targetDate = targetDate,
                        !.targetMonth = TargetMonth(tz, targetDate),
                        !.targetYear = getFullYear(tz, targetDate),
                        !.targetMonthYear = TargetMonthYear(tz, targetDate)]

NavRethrown == [nav EXCEPT !.pc = "raised", !.threw = TRUE]

\* catch (error) { ...; return false; }
NavCaught == [nav EXCEPT !.pc = "done", !.result = FALSE, !.threw = TRUE]

\* A caller invokes navigateToMonth(date) on the client.
CallNavigateToMonth(date) ==
    /\ nav.pc = "idle" /\ sda.pc = "idle" /\ rng.pc = "idle"
    /\ IF page = NoHandle
       THEN /\ outcome' = NotInitialized("navigateToMonth")
            /\ obs' = NoObs
            /\ UNCHANGED nav
       ELSE /\ nav' = NavEnter(date, "user")
            /\ outcome' = NoOutcome
            /\ obs' = [NoObs EXCEPT !.startLabel = IF OnCalendar(url) THEN label ELSE Null,
                                  !.session = TRUE]
    /\ UNCHANGED <<clientVars, envVars, siteVars, sda, rng>>

\* await currentMonthYearElement.textContent(), the equality test and the
\* computation of the difference.
NavRead ==
    /\ nav.pc = "read"
    /\ \/ /\ OnCalendar(url)
          /\ nav' = IF AlreadyThere(label, nav.targetMonthYear)
                    THEN [nav EXCEPT !.pc = "done", !.result = TRUE,
                                     !.currentMonthYear = label]
                    ELSE [nav EXCEPT !.pc = "loop", !.currentMonthYear = label,
                                     !.monthDiff = MonthDiff(tz, label, nav.targetDate),
                                     !.i = 0]
          /\ obs' = [obs EXCEPT !.navActions = @ + 1, !.acted = TRUE]
       \/ /\ nav' = NavCaught
          /\ obs' = [obs EXCEPT !.uiFailed = TRUE, !.hardFailed = TRUE]
    /\ UNCHANGED <<clientVars, envVars, siteVars, sda, rng, outcome>>

LoopOneMore(n) ==
    \/ JsGt(n.monthDiff, Num(0)) /\ JsLe(Num(n.i), n.monthDiff)
    \/ JsLt(n.monthDiff, Num(0)) /\ JsLe(Num(n.i), JsAbs(n.monthDiff))

LoopAtLeastOnce(n) ==
    \/ ~JsLt(n.monthDiff, Num(0)) /\ ~IsNaN(n.monthDiff) /\ (n.i = 0 \/ JsLt(Num(n.i), n.monthDiff))
    \/ JsLt(n.monthDiff, Num(0)) /\ JsLt(Num(n.i), JsAbs(n.monthDiff))

\* i < monthDiff, or i < Math.abs(monthDiff), of the loop that runs
LoopContinues(n) ==
    \/ JsGt(n.monthDiff, Num(0)) /\ JsLt(Num(n.i), n.monthDiff)
    \/ JsLt(n.monthDiff, Num(0)) /\ JsLt(Num(n.i), JsAbs(n.monthDiff))

\* await this.page.getByRole('button').nth(2).click()  -- next month
\* await this.page.getByRole('button').nth(1).click()  -- previous month
NavClick ==
    /\ nav.pc = "loop" /\ LoopContinues(nav)
    /\ obs.nextClicks + obs.prevClicks < MaxClicks
    /\ \/ /\ OnCalendar(url)
          /\ IF JsGt(nav.monthDiff, Num(0))
             THEN /\ calMonth' = MonthAfterClick(uiMode, calMonth, 1)
                  /\ obs' = [obs EXCEPT !.nextClicks = @ + 1, !.navActions = @ + 1,
                                      !.acted = TRUE]
             ELSE /\ calMonth' = MonthAfterClick(uiMode, calMonth, -1)
                  /\ obs' = [obs EXCEPT !.prevClicks = @ + 1, !.navActions = @ + 1,
                                      !.acted = TRUE]
          /\ nav' = [nav EXCEPT !.pc = "pause"]
       \/ /\ nav' = NavCaught
          /\ obs' = [obs EXCEPT !.uiFailed = TRUE, !.hardFailed = TRUE]
          /\ UNCHANGED calMonth
    /\ UNCHANGED <<clientVars, envVars, url, siteAuth, editor, boatActive, sda, rng, outcome>>

\* await this.page.waitForTimeout(300); i++
NavPause ==
    /\ nav.pc = "pause"
    /\ \/ /\ nav' = [nav EXCEPT !.pc = "loop", !.i = @ + 1]
          /\ obs' = [obs EXCEPT !.navActions = @ + 1, !.acted = TRUE]
       \/ /\ nav' = NavCaught
          /\ obs' = [obs EXCEPT !.uiFailed = TRUE, !.hardFailed = TRUE]
    /\ UNCHANGED <<clientVars, envVars, siteVars, sda, rng, outcome>>

\* const newMonthYear = await currentMonthYearElement.textContent(), and the
\* verdict on it.
NavReread ==
    /\ nav.pc = "loop" /\ ~LoopContinues(nav)
    /\ \/ /\ OnCalendar(url)
          /\ nav' = [nav EXCEPT !.pc = "done", !.result = Arrived(label, nav.targetMonth)]
          /\ obs' = [obs EXCEPT !.navActions = @ + 1, !.acted = TRUE]
       \/ /\ nav' = NavCaught
          /\ obs' = [obs EXCEPT !.uiFailed = TRUE, !.hardFailed = TRUE]
    /\ UNCHANGED <<clientVars, envVars, siteVars, sda, rng, outcome>>

\* navigateToMonth hands its result to the caller outside the client.
NavReturn ==
    /\ nav.pc = "done" /\ nav.caller = "user"
    /\ outcome' = Returned("navigateToMonth", nav.result)
    /\ nav' = NavIdle
    /\ UNCHANGED <<clientVars, envVars, siteVars, sda, rng, obs>>

(***************************************************************************)
(* Operations that are followed as one step.  The answers of the page to   *)
(* the awaits of an operation are its input e: a field is TRUE when that   *)
(* await succeeds and FALSE when it throws (missing element, timeout,      *)
(* failed navigation).  Each operation yields                              *)
(*   ret     the value returned,                                           *)
(*   url     where the page is afterwards,                                 *)
(*   acted   some UI action was issued,                                    *)
(*   failed  some await threw,                                             *)
(*   caught  the catch block of the operation (or of a nested operation    *)
(*           whose result it tests) ran.                                   *)
(***************************************************************************)

\* The page still belongs to an open browser context.
PageAlive(u) == u.kind # "closed"

\* The answers of a page to the awaits named in fields: any, while the page
\* is alive; all failing afterwards.
Answers(u, fields) ==
    IF PageAlive(u) THEN [fields -> BOOLEAN] ELSE {[f \in fields |-> FALSE]}

Effect(ret, u, acted, failed, caught) ==
    [ret |-> ret, url |-> u, acted |-> acted, failed |-> failed, caught |-> caught]

\* Where a navigation to /owner/boats ends: the list, for a logged-in user.
OwnerBoatsOr(auth, u) == IF auth THEN OwnerBoats ELSE HomePage

DashboardFields == {"menu", "goto", "list"}

MustLogInNever(loggedIn) == FALSE

\* if (!this.isLoggedIn) { ...; return false; }
MustLogInFirst(loggedIn) == ~loggedIn

\* navigateToOwnerDashboard(), the client being initialized.
Dashboard(loggedIn, auth, u, e) ==
    IF MustLogInFirst(loggedIn) THEN Effect(FALSE, u, FALSE, FALSE, FALSE)
    ELSE LET menuOk == e.menu /\ auth
             u1 == IF menuOk THEN OwnerBoats
                   ELSE IF e.goto THEN OwnerBoatsOr(auth, u) ELSE u
         IN  IF ~menuOk /\ ~e.goto THEN Effect(FALSE, u, TRUE, TRUE, TRUE)
             ELSE IF e.list /\ OnOwnerBoats(u1) THEN Effect(TRUE, u1, TRUE, ~menuOk, FALSE)
             ELSE Effect(FALSE, u1, TRUE, TRUE, TRUE)

\* What navigateToOwnerDashboard() can do from here.
Dashboards(loggedIn, auth, u) ==
    {Dashboard(loggedIn, auth, u, e) : e \in Answers(u, DashboardFields)}

\* A nested call that the test in front of it skips.
Skipped(u) == Effect(TRUE, u, FALSE, FALSE, FALSE)

\* if (!currentUrl.includes('/owner/boats')) { await this.navigateToOwnerDashboard(); }
DashboardUnlessThere(loggedIn, auth, u) ==
    IF OnOwnerBoats(u) THEN {Skipped(u)} ELSE Dashboards(loggedIn, auth, u)

EditFields == {"entry", "direct", "settled"}

\* editBoat(boatId), the client being initialized, dash being what the
\* dashboard navigation in front of it did.
Edit(dash, auth, boatId, e) ==
    LET u1 == dash.url
        entryOk == e.entry /\ OnOwnerBoats(u1)
        u2 == IF entryOk \/ e.direct
              THEN (IF auth THEN Location("edit", boatId) ELSE HomePage)
              ELSE u1
        failed == dash.failed \/ ~entryOk \/ ~e.settled
    IN  IF ~entryOk /\ ~e.direct THEN Effect(FALSE, u1, TRUE, TRUE, TRUE)
        ELSE Effect(OnBoatPages(u2, boatId), u2, TRUE, failed, FALSE)

\* What editBoat(boatId) can do from here.
Edits(loggedIn, auth, u, boatId) ==
    {Edit(dash, auth, boatId, e) :
        dash \in DashboardUnlessThere(loggedIn, auth, u), e \in Answers(u, EditFields)}

\* if (!currentUrl.includes(`/boats/${boatId}`)) { ... await this.editBoat(boatId) ... }
EditUnlessThere(loggedIn, auth, u, boatId) ==
    IF OnBoatPages(u, boatId) THEN {Skipped(u)} ELSE Edits(loggedIn, auth, u, boatId)

CalendarFields == {"open", "shown"}

\* navigateToBoatCalendar(boatId), the client being initialized, edit being
\* what the editBoat in front of it did.
BoatCalendar(edit, auth, boatId, e) ==
    IF ~edit.ret THEN Effect(FALSE, edit.url, edit.acted, edit.failed, edit.caught)
    ELSE IF ~e.open THEN Effect(FALSE, edit.url, TRUE, TRUE, TRUE)
    ELSE IF ~e.shown \/ ~auth
         THEN Effect(FALSE, IF auth THEN Location("edit", boatId) ELSE HomePage,
                     TRUE, TRUE, TRUE)
    ELSE Effect(TRUE, Location("calendar", boatId), TRUE, edit.failed, FALSE)

\* What navigateToBoatCalendar(boatId) can do from here.
BoatCalendars(loggedIn, auth, u, boatId) ==
    {BoatCalendar(edit, auth, boatId, e) :
        edit \in EditUnlessThere(loggedIn, auth, u, boatId), e \in Answers(u, CalendarFields)}

ListFields == {"boats", "evaluate"}

\* The boats the owner's list shows.
SiteBoats == <<"b1", "b2">>

\* getBoatsList(), the client being initialized, dash being what the
\* dashboard navigation in front of it did: ret is the list.
BoatsList(dash, e) ==
    IF e.boats /\ e.evaluate /\ OnOwnerBoats(dash.url)
    THEN Effect(SiteBoats, dash.url, TRUE, dash.failed, FALSE)
    ELSE Effect(<<>>, dash.url, TRUE, TRUE, TRUE)

\* What getBoatsList() can do from here.
BoatsLists(loggedIn, auth, u) ==
    {BoatsList(dash, e) :
        dash \in DashboardUnlessThere(loggedIn, auth, u), e \in Answers(u, ListFields)}

ToggleFields == {"read", "click", "dialog", "response"}

\* textContent() of the .status-toggle element.
StatusText(active) ==
    IF active THEN <<"A","c","t","i","v","e">> ELSE <<"I","n","a","c","t","i","v","e">>

\* text?.includes('Active') || false
IsCurrentlyActive(text) ==
    IF text = Null THEN FALSE ELSE includes(text, <<"A","c","t","i","v","e">>)

ToggleAlways(activate, isCurrentlyActive) == TRUE

\* (activate && !isCurrentlyActive) || (!activate && isCurrentlyActive)
ToggleNeeded(activate, isCurrentlyActive) ==
    (activate /\ ~isCurrentlyActive) \/ (~activate /\ isCurrentlyActive)

\* toggleBoatStatus(boatId, activate), the client being initialized, edit
\* being what its editBoat did: also whether editBoat succeeded, whether the
\* text of the toggle was read, whether the toggle was clicked and the
\* listing's state afterwards.
Toggle(edit, activate, active, e) ==
    LET base == [clicked |-> FALSE, active |-> active, edited |-> edit.ret,
                 read |-> edit.ret /\ e.read]
        clicked == [base EXCEPT !.clicked = TRUE]
    IN  IF ~edit.ret THEN Effect(FALSE, edit.url, edit.acted, edit.failed, edit.caught) @@ base
        ELSE IF ~e.read THEN Effect(FALSE, edit.url, TRUE, TRUE, TRUE) @@ base
        ELSE IF ~ToggleNeeded(activate, IsCurrentlyActive(StatusText(active)))
             THEN Effect(TRUE, edit.url, TRUE, edit.failed, FALSE) @@ base
        ELSE IF ~e.click THEN Effect(FALSE, edit.url, TRUE, TRUE, TRUE) @@ base
        ELSE IF ~e.dialog \/ ~e.response
             THEN Effect(FALSE, edit.url, TRUE, TRUE, TRUE)
                      @@ [clicked EXCEPT !.active = IF e.dialog THEN ~active ELSE active]
        ELSE Effect(TRUE, edit.url, TRUE, edit.failed, FALSE)
                 @@ [clicked EXCEPT !.active = ~active]

\* What toggleBoatStatus(boatId, activate) can do from here.
Toggles(loggedIn, auth, u, boatId, activate, active) ==
    {Toggle(edit, activate, active, e) :
        edit \in Edits(loggedIn, auth, u, boatId), e \in Answers(u, ToggleFields)}

LoginFields == {"form", "settled", "check"}

Credentials == {"valid", "invalid"}

\* The elements that only a logged-in user is shown: the 'Log out' span,
\* the user menu and the user button.
Indicators == {"logout", "userMenu", "userButton"}

\* What the page can show once the form is submitted: for credentials the
\* site accepts at least one indicator, none otherwise.
IndicatorsFor(credentials) ==
    IF credentials = "valid" THEN (SUBSET Indicators) \ {{}} ELSE {{}}

\* locator(...).count()
Count(shown, indicator) == IF indicator \in shown THEN 1 ELSE 0

checkIfLoggedInAll(shown, counted) ==
    counted /\ Count(shown, "logout") > 0 /\ Count(shown, "userMenu") > 0
            /\ Count(shown, "userButton") > 0

\* checkIfLoggedIn(): logoutButton > 0 || userMenu > 0 || userButton > 0, or
\* false when a count throws.
checkIfLoggedIn(shown, counted) ==
    counted /\ (Count(shown, "logout") > 0 \/ Count(shown, "userMenu") > 0
                \/ Count(shown, "userButton") > 0)

\* The messages of login, word by word; errorMessage is the text of the
\* exception caught.
LoginSucceededMessage == <<"Inicio", "de", "sesión", "exitoso">>
LoginErrorMessage == <<"Error", "durante", "el", "login:", "errorMessage">>
LoginFailedWithoutReason == <<"Error", "durante", "el", "login">>
LoginFailedMessage == <<"Credenciales", "inválidas", "o", "error", "durante", "el", "login">>

\* login(credentials), the client being initialized, shown being what the
\* page shows once the form is submitted: ret is success; also the message,
\* the indicator of the site and this.isLoggedIn afterwards.
LoginEffect(loggedIn, auth, u, credentials, shown, e) ==
    LET formOk == e.form /\ ~auth /\ u.kind # "blank"
        found == checkIfLoggedIn(shown, e.check)
    IN  IF ~formOk
        THEN Effect(FALSE, u, TRUE, TRUE, TRUE)
                 @@ [message |-> LoginErrorMessage, auth |-> auth, isLoggedIn |-> loggedIn,
                     login |-> [NoLogin EXCEPT !.credentials = credentials,
                                               !.before = loggedIn]]
        ELSE Effect(found, u, TRUE, ~e.settled \/ ~e.check, FALSE)
                 @@ [message |-> IF found THEN LoginSucceededMessage ELSE LoginFailedMessage,
                     auth |-> shown # {}, isLoggedIn |-> found,
                     login |-> [credentials |-> credentials, submitted |-> TRUE,
                                shown |-> shown, counted |-> e.check, before |-> loggedIn]]

\* No call is running.
Idle == nav.pc = "idle" /\ sda.pc = "idle" /\ rng.pc = "idle"

\* What a one-step operation leaves in obs.
ObsOf(r) == [NoObs EXCEPT !.uiFailed = r.failed, !.hardFailed = r.caught,
                          !.acted = r.acted, !.session = TRUE]

\* A caller invokes op on a client without a page: the call rejects.
Rejects(op) ==
    /\ outcome' = NotInitialized(op)
    /\ obs' = NoObs
    /\ UNCHANGED <<clientVars, envVars, siteVars, nav, sda, rng>>

\* How a login call ended: success, the answer of lines 100-103 after the
\* form was submitted, or the answer of the catch block.
LoginEnding(r) ==
    IF r.ret THEN "succeeded" ELSE IF r.login.submitted THEN "rejected" ELSE "error"

\* A caller invokes login(credentials).
Login(credentials) ==
    /\ Idle
    /\ IF page = NoHandle THEN Rejects("login")
       ELSE \E r \in {LoginEffect(isLoggedIn, siteAuth, url, credentials, shown, e) :
                      shown \in IndicatorsFor(credentials),
                      e \in Answers(url, LoginFields)} :
                  /\ isLoggedIn' = r.isLoggedIn
                  /\ lastLogin' = LoginEnding(r)
                  /\ siteAuth' = r.auth
                  /\ outcome' = [Returned("login", r.ret) EXCEPT !.message = r.message]
                  /\ obs' = [ObsOf(r) EXCEPT !.login = r.login]
                  /\ UNCHANGED <<browser, context, page, launched, openBrowsers, envVars,
                                 calMonth, url, editor, boatActive, nav, sda, rng>>

\* A caller invokes navigateToOwnerDashboard().
NavigateToOwnerDashboard ==
    /\ Idle
    /\ IF page = NoHandle THEN Rejects("navigateToOwnerDashboard")
       ELSE \E r \in Dashboards(isLoggedIn, siteAuth, url) :
                  /\ url' = r.url
                  /\ outcome' = Returned("navigateToOwnerDashboard", r.ret)
                  /\ obs' = ObsOf(r)
                  /\ editor' = EditorAfter(r)
                  /\ UNCHANGED <<clientVars, envVars, calMonth, siteAuth,
                                 boatActive, nav, sda, rng>>

\* A caller invokes getBoatsList().
GetBoatsList ==
    /\ Idle
    /\ IF page = NoHandle THEN Rejects("getBoatsList")
       ELSE \E r \in BoatsLists(isLoggedIn, siteAuth, url) :
                  /\ url' = r.url
                  /\ outcome' = [Returned("getBoatsList", r.ret # <<>>) EXCEPT !.boats = r.ret]
                  /\ obs' = ObsOf(r)
                  /\ editor' = EditorAfter(r)
                  /\ UNCHANGED <<clientVars, envVars, calMonth, siteAuth,
                                 boatActive, nav, sda, rng>>

\* A caller invokes editBoat(boatId).
EditBoat(boatId) ==
    /\ Idle
    /\ IF page = NoHandle THEN Rejects("editBoat")
       ELSE \E r \in Edits(isLoggedIn, siteAuth, url, boatId) :
                  /\ url' = r.url
                  /\ outcome' = Returned("editBoat", r.ret)
                  /\ obs' = ObsOf(r)
                  /\ editor' = EditorAfter(r)
                  /\ UNCHANGED <<clientVars, envVars, calMonth, siteAuth,
                                 boatActive, nav, sda, rng>>

\* The calendar page, freshly loaded, shows the current month and no editor.
CalendarAfter(r, cm) == IF OnCalendar(r.url) /\ r.acted THEN today ELSE cm

\* A caller invokes navigateToBoatCalendar(boatId).
NavigateToBoatCalendar(boatId) ==
    /\ Idle
    /\ IF page = NoHandle THEN Rejects("navigateToBoatCalendar")
       ELSE \E r \in BoatCalendars(isLoggedIn, siteAuth, url, boatId) :
                  /\ url' = r.url
                  /\ calMonth' = CalendarAfter(r, calMonth)
                  /\ editor' = IF r.acted THEN EditorClosed ELSE editor
                  /\ outcome' = Returned("navigateToBoatCalendar", r.ret)
                  /\ obs' = ObsOf(r)
                  /\ UNCHANGED <<clientVars, envVars, siteAuth, boatActive, nav, sda, rng>>

\* The last call on this client was a toggleBoatStatus that returned, and
\* that call changed the listing's state.
ToggleReturned == outcome.op = "toggleBoatStatus" /\ outcome.kind = "returned"
ToggleChanged == boatActive # obs.toggle.before

\* A caller invokes toggleBoatStatus(boatId, activate).
ToggleBoatStatus(boatId, activate) ==
    /\ Idle
    /\ IF page = NoHandle THEN Rejects("toggleBoatStatus")
       ELSE \E r \in Toggles(isLoggedIn, siteAuth, url, boatId, activate, boatActive) :
                  /\ url' = r.url
                  /\ boatActive' = r.active
                  /\ outcome' = Returned("toggleBoatStatus", r.ret)
                  /\ obs' = [ObsOf(r) EXCEPT
                               !.toggleClicks = IF r.clicked THEN 1 ELSE 0,
                               !.toggle = [activate |-> activate, before |-> boatActive,
                                           edited |-> r.edited, read |-> r.read,
                                           follows |-> ToggleReturned,
                                           lastActivate |-> ToggleReturned /\ obs.toggle.activate,
                                           lastChanged |-> ToggleReturned /\ ToggleChanged]]
                  /\ editor' = EditorAfter(r)
                  /\ UNCHANGED <<clientVars, envVars, calMonth, siteAuth, nav, sda, rng>>

(***************************************************************************)
(* setDateAvailability(boatId, date, availability)                         *)
(***************************************************************************)

\* availability: isAvailable, the optional unavailableTimeRanges and the
\* optional priceAdjustment (defined is FALSE for undefined).
Availability(isAvailable, ranges, price) ==
    [isAvailable |-> isAvailable, unavailableTimeRanges |-> ranges, priceAdjustment |-> price]
NoRanges == [defined |-> FALSE, list |-> <<>>]
Ranges(list) == [defined |-> TRUE, list |-> list]
NoPrice == [defined |-> FALSE, v |-> 0]
Price(v) == [defined |-> TRUE, v |-> v]
TimeRange(from, to) == [from |-> from, to |-> to]

\* { isAvailable: false }, as BoatService.blockDay passes it.
BlockDay == Availability(FALSE, NoRanges, NoPrice)
\* An available day with two unavailable ranges and a price adjustment of 0.
OpenDay == Availability(TRUE, Ranges(<<TimeRange("09:00", "12:00"),
                                       TimeRange("14:00", "16:00")>>), Price(0))

\* A blocked day that still carries a time range and a price adjustment.
BlockedWithExtras == Availability(FALSE, Ranges(<<TimeRange("09:00", "12:00")>>), Price(10))
\* { isAvailable: true }
OpenPlain == Availability(TRUE, NoRanges, NoPrice)
\* An available day with one unavailable range and no price adjustment.
OpenOneRange == Availability(TRUE, Ranges(<<TimeRange("10:00", "11:00")>>), NoPrice)
\* An available day with an empty list of ranges and a price adjustment.
OpenNoRanges == Availability(TRUE, Ranges(<<>>), Price(15))

\* availability.unavailableTimeRanges && .length > 0 && availability.isAvailable
WantsRanges(a) ==
    a.unavailableTimeRanges.defined /\ Len(a.unavailableTimeRanges.list) > 0 /\ a.isAvailable
WantsPriceIfTruthy(a) ==
    a.priceAdjustment.defined /\ a.priceAdjustment.v # 0 /\ a.isAvailable

\* availability.priceAdjustment !== undefined && availability.isAvailable
WantsPrice(a) == a.priceAdjustment.defined /\ a.isAvailable

SwitchAlways(a, isCurrentlyAvailable) == TRUE

\* availability.isAvailable !== isCurrentlyAvailable
SwitchNeeded(a, isCurrentlyAvailable) == a.isAvailable # isCurrentlyAvailable

\* The statement that follows the switch.
AfterSwitch(a) == IF WantsRanges(a) THEN "ranges" ELSE IF WantsPrice(a) THEN "price" ELSE "save"
\* The statement that follows the time ranges.
AfterRanges(a) == IF WantsPrice(a) THEN "price" ELSE "save"

SdaEnter(boatId, date, availability, caller) ==
    [pc |-> "calendar", caller |-> caller, boatId |-> boatId, date |-> date,
     availability |-> availability, dateObj |-> NaN, day |-> <<>>,
     isCurrentlyAvailable |-> FALSE, result |-> FALSE, threw |-> FALSE]

SdaPressesOn == [sda EXCEPT !.pc = "cell", !.day = <<"1">>]

\* return false after a failed navigation
SdaGaveUp == [sda EXCEPT !.pc = "done", !.result = FALSE]
\* catch (error) { ...; return false; }
SdaCaughtAsSuccess == [sda EXCEPT !.pc = "done", !.result = TRUE, !.threw = TRUE]
SdaCaught == [sda EXCEPT !.pc = "done", !.result = FALSE, !.threw = TRUE]

ObsFailure == [obs EXCEPT !.uiFailed = TRUE, !.hardFailed = TRUE]
ObsAction == [obs EXCEPT !.acted = TRUE]
\* The step of setDateAvailability just attempted, and whether it succeeded.
Step(o, name, ok) == [o EXCEPT !.steps = Append(@, <<name, ok>>)]

\* A caller invokes setDateAvailability(boatId, date, availability).
CallSetDateAvailability(boatId, date, availability) ==
    /\ Idle
    /\ IF page = NoHandle
       THEN /\ outcome' = NotInitialized("setDateAvailability")
            /\ obs' = NoObs
            /\ UNCHANGED sda
       ELSE /\ sda' = SdaEnter(boatId, date, availability, "user")
            /\ outcome' = NoOutcome
            /\ obs' = [NoObs EXCEPT !.session = TRUE]
    /\ UNCHANGED <<clientVars, envVars, siteVars, nav, rng>>

\* const calendarSuccess = await this.navigateToBoatCalendar(boatId), and on
\* success const dateObj = new Date(date) and the call of navigateToMonth.
SdaCalendar ==
    /\ sda.pc = "calendar"
    /\ \E r \in BoatCalendars(isLoggedIn, siteAuth, url, sda.boatId) :
         LET cm == CalendarAfter(r, calMonth)
             dateObj == DateFromString(sda.date)
             seen == [obs EXCEPT !.uiFailed = @ \/ r.failed,
                                 !.hardFailed = @ \/ r.caught,
                                 !.acted = @ \/ r.acted,
                                 !.switchClicks = 0, !.addRangeClicks = 0,
                                 !.nextClicks = 0, !.prevClicks = 0, !.navActions = 0,
                                 !.steps = <<<<"calendar", r.ret>>>>]
         IN  /\ url' = r.url
             /\ calMonth' = cm
             /\ editor' = IF r.acted THEN EditorClosed ELSE editor
             /\ IF r.ret
                THEN /\ sda' = [sda EXCEPT !.pc = "month", !.dateObj = dateObj]
                     /\ nav' = NavEnter(DateArg(dateObj), "sda")
                     /\ obs' = [seen EXCEPT !.startLabel = LabelText(render, cm)]
                ELSE /\ sda' = SdaGaveUp
                     /\ obs' = seen
                     /\ UNCHANGED nav
    /\ UNCHANGED <<clientVars, envVars, siteAuth, boatActive, rng, outcome>>

\* const monthNavigationSuccess = await this.navigateToMonth(dateObj), and
\* const day = dateObj.getDate().toString()
SdaMonth ==
    /\ sda.pc = "month" /\ nav.pc = "done" /\ nav.caller = "sda"
    /\ sda' = IF nav.result
              THEN [sda EXCEPT !.pc = "cell", !.day = NumToString(getDate(tz, sda.dateObj))]
              ELSE SdaGaveUp
    /\ nav' = NavIdle
    /\ obs' = Step(obs, "month", nav.result)
    /\ UNCHANGED <<clientVars, envVars, siteVars, rng, outcome>>

\* The calendar has a cell of that name: a day of the month shown.
HasCell(cm, day) ==
    \E d \in 1..DaysInMonth(cm \div 12, (cm % 12) + 1) : NatToString(d) = day

\* await this.page.getByRole('cell', { name: day }).dblclick()
SdaCell ==
    /\ sda.pc = "cell"
    /\ \/ /\ OnCalendar(url) /\ HasCell(calMonth, sda.day)
          /\ \E checked \in BOOLEAN :
               editor' = [EditorClosed EXCEPT !.open = TRUE, !.day = sda.day,
                                                  !.checked = checked]
          /\ sda' = [sda EXCEPT !.pc = "form"]
          /\ obs' = Step(ObsAction, "cell", TRUE)
       \/ /\ sda' = SdaCaught
          /\ obs' = Step(ObsFailure, "cell", FALSE)
          /\ UNCHANGED editor
    /\ UNCHANGED <<clientVars, envVars, calMonth, url, siteAuth, boatActive, nav, rng, outcome>>

\* await this.page.waitForSelector('#js-calendar-editor-title', ...) and
\* await this.page.locator('#js-calendar-editor-status').isChecked()
SdaForm ==
    /\ sda.pc = "form"
    /\ \/ /\ editor.open
          /\ sda' = [sda EXCEPT !.isCurrentlyAvailable = editor.checked,
                                !.pc = IF SwitchNeeded(sda.availability, editor.checked)
                                       THEN "switch" ELSE AfterSwitch(sda.availability)]
          /\ obs' = Step(ObsAction, "form", TRUE)
       \/ /\ sda' = SdaCaught
          /\ obs' = Step(ObsFailure, "form", FALSE)
    /\ UNCHANGED <<clientVars, envVars, siteVars, nav, rng, outcome>>

\* await this.page.locator('#pricing-switch span').first().click()
SdaSwitch ==
    /\ sda.pc = "switch"
    /\ \/ /\ editor.open
          /\ editor' = [editor EXCEPT !.checked = ~@]
          /\ sda' = [sda EXCEPT !.pc = AfterSwitch(sda.availability)]
          /\ obs' = Step([ObsAction EXCEPT !.switchClicks = @ + 1],
                      "switch", TRUE)
       \/ /\ sda' = SdaCaught
          /\ obs' = Step(ObsFailure, "switch", FALSE)
          /\ UNCHANGED editor
    /\ UNCHANGED <<clientVars, envVars, calMonth, url, siteAuth, boatActive, nav, rng, outcome>>

\* One awaited call on the time-range controls: its name, the 1-based
\* position of the range it serves (nth(i - 1) of the selectors) and the
\* value selected.
UiCall(name, i, v) == [name |-> name, i |-> i, v |-> v]

\* A from/to selector pair nothing was selected in.
EmptyRow == TimeRange("", "")

\* The body of the loop over the ranges, from range i on: 'Add new range'
\* and the pause (but for the first range), then the two selectOption calls.
RECURSIVE RangeCallsFrom(_, _)
RangeCallsFrom(ranges, i) ==
    IF i > Len(ranges) THEN <<>>
    ELSE (IF i > 1 THEN <<UiCall("add", i, ""), UiCall("pause", i, "")>> ELSE <<>>)
         \o <<UiCall("from", i, ranges[i].from), UiCall("to", i, ranges[i].to)>>
         \o RangeCallsFrom(ranges, i + 1)

\* 'Mark specific time range(s)', then the loop: the awaits in order.
RangeCalls(ranges) == <<UiCall("mark", 0, "")>> \o RangeCallsFrom(ranges, 1)

\* The form has the element the call addresses: the selectors nth(i - 1)
\* exist once the form shows i pairs.
CallPossible(rows, c) == c.name \in {"from", "to"} => c.i <= Len(rows)

\* The selector pairs of the form after the call: marking shows the first
\* pair, 'Add new range' appends one, selectOption sets a selector.
FormAfter(rows, c) ==
    CASE c.name = "mark" -> IF rows = <<>> THEN <<EmptyRow>> ELSE rows
      [] c.name = "add" -> Append(rows, EmptyRow)
      [] c.name = "from" -> [rows EXCEPT ![c.i].from = c.v]
      [] c.name = "to" -> [rows EXCEPT ![c.i].to = c.v]
      [] OTHER -> rows

\* The selector pairs after the first k calls.
RECURSIVE FormAfterCalls(_, _, _)
FormAfterCalls(rows, calls, k) ==
    IF k = 0 THEN rows ELSE FormAfter(FormAfterCalls(rows, calls, k - 1), calls[k])

\* The clicks on 'Add new range' among the first k calls.
AddClicks(calls, k) == Cardinality({j \in 1..k : calls[j].name = "add"})

\* 'Mark specific time range(s)', then for each range: 'Add new range' (but
\* for the first) and the from/to selectors of its row. The first k awaits
\* succeed; the next one, if any, throws.
SdaRanges ==
    /\ sda.pc = "ranges"
    /\ LET calls == RangeCalls(sda.availability.unavailableTimeRanges.list)
       IN  \E k \in 0..Len(calls) :
             /\ k > 0 => editor.open
             /\ \A j \in 1..k : CallPossible(FormAfterCalls(editor.rows, calls, j - 1), calls[j])
             /\ editor' = [editor EXCEPT !.rows = FormAfterCalls(@, calls, k)]
             /\ IF k = Len(calls)
                THEN /\ sda' = [sda EXCEPT !.pc = AfterRanges(sda.availability)]
                     /\ obs' = Step([ObsAction EXCEPT !.addRangeClicks = AddClicks(calls, k)],
                                    "ranges", TRUE)
                ELSE /\ sda' = SdaCaught
                     /\ obs' = Step([ObsFailure EXCEPT !.acted = @ \/ k > 0,
                                                       !.addRangeClicks = AddClicks(calls, k)],
                                    "ranges", FALSE)
    /\ UNCHANGED <<clientVars, envVars, calMonth, url, siteAuth, boatActive, nav, rng, outcome>>

\* await slider.fill(availability.priceAdjustment.toString())
SdaPrice ==
    /\ sda.pc = "price"
    /\ \/ /\ editor.open
          /\ editor' = [editor EXCEPT !.price = NumToString(Num(sda.availability.priceAdjustment.v))]
          /\ sda' = [sda EXCEPT !.pc = "save"]
          /\ obs' = Step(ObsAction, "price", TRUE)
       \/ /\ sda' = SdaCaught
          /\ obs' = Step(ObsFailure, "price", FALSE)
          /\ UNCHANGED editor
    /\ UNCHANGED <<clientVars, envVars, calMonth, url, siteAuth, boatActive, nav, rng, outcome>>

\* await this.page.getByRole('button', { name: 'Save Changes' }).click(), the
\* tolerated waitForNavigation, and return true.
SdaSave ==
    /\ sda.pc = "save"
    /\ \/ /\ editor.open
          /\ editor' = [EditorClosed EXCEPT
                          !.saved = <<[day |-> editor.day, checked |-> editor.checked,
                                       rows |-> editor.rows, price |-> editor.price]>>]
          /\ sda' = [sda EXCEPT !.pc = "done", !.result = TRUE]
          /\ \E settled \in BOOLEAN :
               obs' = Step([ObsAction EXCEPT !.uiFailed = @ \/ ~settled], "save", TRUE)
       \/ /\ sda' = SdaCaught
          /\ obs' = Step(ObsFailure, "save", FALSE)
          /\ UNCHANGED editor
    /\ UNCHANGED <<clientVars, envVars, calMonth, url, siteAuth, boatActive, nav, rng, outcome>>

\* setDateAvailability hands its result to the caller outside the client.
SdaReturn ==
    /\ sda.pc = "done" /\ sda.caller = "user"
    /\ outcome' = Returned("setDateAvailability", sda.result)
    /\ sda' = SdaIdle
    /\ UNCHANGED <<clientVars, envVars, siteVars, nav, rng, obs>>

(***************************************************************************)
(* setDateRangeAvailability(boatId, startDate, endDate, availability)      *)
(***************************************************************************)

\* const start = new Date(startDate); const end = new Date(endDate);
\* let success = true; day = new Date(start)
RngEnter(boatId, startDate, endDate, availability) ==
    [pc |-> "loop", boatId |-> boatId, availability |-> availability,
     startDate |-> startDate, endDate |-> endDate,
     start |-> DateFromString(startDate), end |-> DateFromString(endDate),
     day |-> DateFromString(startDate), success |-> TRUE]

\* A caller invokes setDateRangeAvailability(boatId, startDate, endDate,
\* availability): the method has no test of this.page of its own.
CallSetDateRangeAvailability(boatId, startDate, endDate, availability) ==
    /\ Idle
    /\ rng' = RngEnter(boatId, startDate, endDate, availability)
    /\ outcome' = NoOutcome
    /\ obs' = [NoObs EXCEPT !.session = page # NoHandle]
    /\ UNCHANGED <<clientVars, envVars, siteVars, nav, sda>>

\* day <= end
RangeContinues(r) == JsLe(r.day, r.end)

\* day.setDate(day.getDate() + 1)
NextDay(z, day) == setDate(z, day, JsAdd(getDate(z, day), Num(1)))

\* The loop body up to the await: dateStr and the call of
\* setDateAvailability, whose not-initialized error is not caught here.
RngIterate ==
    /\ rng.pc = "loop" /\ RangeContinues(rng)
    /\ LET dateStr == ISODate(rng.day.v)
       IN  IF page = NoHandle
           THEN /\ outcome' = [NotInitialized("setDateRangeAvailability") EXCEPT
                                  !.session = obs.session]
                /\ rng' = RngIdle
                /\ UNCHANGED <<sda, obs>>
           ELSE /\ sda' = SdaEnter(rng.boatId, dateStr, rng.availability, "rng")
                /\ rng' = [rng EXCEPT !.pc = "await"]
                /\ obs' = [obs EXCEPT !.calls = Append(@, dateStr)]
                /\ UNCHANGED outcome
    /\ UNCHANGED <<clientVars, envVars, siteVars, nav>>

DayCallStarted(s) == s.caller = "rng"

\* await this.setDateAvailability(...): the call of the day has returned
DayCallDone(s) == s.pc = "done" /\ s.caller = "rng"

\* const result = await ...; if (!result) { success = false; } and the step
\* of the loop.
RngResume ==
    /\ rng.pc = "await" /\ DayCallDone(sda)
    /\ rng' = [rng EXCEPT !.pc = "loop", !.success = @ /\ sda.result,
                          !.day = NextDay(tz, rng.day)]
    /\ obs' = [obs EXCEPT !.results = Append(@, sda.result)]
    /\ sda' = SdaIdle
    /\ UNCHANGED <<clientVars, envVars, siteVars, nav, outcome>>

\* return success
RngReturn ==
    /\ rng.pc = "loop" /\ ~RangeContinues(rng)
    /\ outcome' = [Returned("setDateRangeAvailability", rng.success) EXCEPT
                      !.session = obs.session]
    /\ rng' = RngIdle
    /\ UNCHANGED <<clientVars, envVars, siteVars, nav, sda, obs>>

(***************************************************************************)
(* initialize() and close()                                                *)
(***************************************************************************)

NoPage == Location("closed", "")
BlankPage == Location("blank", "")

\* A caller invokes initialize(): launch, newContext, newPage and goto, any
\* of which may throw; nothing is caught.
Initialize ==
    /\ Idle /\ launched < MaxLaunches
    /\ \E failAt \in {"none", "launch", "newContext", "newPage", "goto"} :
         LET id == launched + 1
             fresh == failAt \in {"none", "goto"}
         IN  IF failAt = "launch"
             THEN /\ outcome' = BrowserError("initialize", page # NoHandle)
                  /\ UNCHANGED <<clientVars, siteVars>>
             ELSE /\ launched' = id
                  /\ openBrowsers' = openBrowsers \cup {id}
                  /\ browser' = id
                  /\ context' = IF failAt = "newContext" THEN context ELSE id
                  /\ page' = IF fresh THEN id ELSE page
                  /\ url' = IF failAt = "none" THEN HomePage
                            ELSE IF failAt = "goto" THEN BlankPage ELSE url
                  /\ siteAuth' = IF fresh THEN FALSE ELSE siteAuth
                  /\ calMonth' = IF fresh THEN today ELSE calMonth
                  /\ editor' = IF fresh THEN EditorClosed ELSE editor
                  /\ outcome' = IF failAt = "none"
                                THEN [Returned("initialize", TRUE) EXCEPT
                                         !.session = page # NoHandle]
                                ELSE BrowserError("initialize", page # NoHandle)
                  /\ UNCHANGED <<isLoggedIn, lastLogin, boatActive>>
    /\ obs' = NoObs
    /\ UNCHANGED <<envVars, nav, sda, rng>>

ClearedButLoggedIn ==
    [browser |-> NoHandle, context |-> NoHandle, page |-> NoHandle, isLoggedIn |-> isLoggedIn]

\* this.context = null; this.browser = null; this.page = null;
\* this.isLoggedIn = false
Cleared ==
    [browser |-> NoHandle, context |-> NoHandle, page |-> NoHandle, isLoggedIn |-> FALSE]

\* A caller invokes close(): context.close() and browser.close(), when set,
\* then the fields are cleared; nothing is caught.
Close ==
    /\ Idle
    /\ \E failAt \in {"none", "context", "browser"} :
         /\ failAt = "context" => context # NoHandle
         /\ failAt = "browser" => browser # NoHandle
         /\ IF failAt = "context"
            THEN /\ outcome' = BrowserError("close", page # NoHandle)
                 /\ UNCHANGED <<clientVars, siteVars>>
            ELSE /\ url' = IF context = page THEN NoPage ELSE url
                 /\ IF failAt = "browser"
                    THEN /\ outcome' = BrowserError("close", page # NoHandle)
                         /\ UNCHANGED <<clientVars, calMonth, siteAuth, editor, boatActive>>
                    ELSE /\ openBrowsers' = openBrowsers \ {browser}
                         /\ browser' = Cleared.browser /\ context' = Cleared.context
                         /\ page' = Cleared.page
                         /\ isLoggedIn' = Cleared.isLoggedIn
                         /\ outcome' = [Returned("close", TRUE) EXCEPT
                                           !.session = page # NoHandle]
                         /\ UNCHANGED <<lastLogin, launched, calMonth, siteAuth, editor,
                                        boatActive>>
    /\ obs' = NoObs
    /\ UNCHANGED <<envVars, nav, sda, rng>>

(***************************************************************************)
(* Specification of the month navigation alone: an initialized client on   *)
(* the calendar page of a boat, asked to navigate again and again.         *)
(***************************************************************************)

Chars2025_03_01 == <<"2","0","2","5","-","0","3","-","0","1">>
Chars2025_03_31 == <<"2","0","2","5","-","0","3","-","3","1">>
Chars2025_01_01 == <<"2","0","2","5","-","0","1","-","0","1">>
Chars2024_12_15 == <<"2","0","2","4","-","1","2","-","1","5">>
Chars2026_01_15 == <<"2","0","2","6","-","0","1","-","1","5">>
Chars0001_03_15 == <<"0","0","0","1","-","0","3","-","1","5">>
Chars0002_01_01 == <<"0","0","0","2","-","0","1","-","0","1">>
CharsNotADate == <<"s","o","o","n">>

NavDates ==
    {StringArg(s) : s \in {Chars2025_03_01, Chars2025_03_31, Chars2025_01_01,
                           Chars2024_12_15, Chars2026_01_15, Chars0001_03_15,
                           Chars0002_01_01, CharsNotADate}}
    \cup {DateArg(Num(DaysFromCivil(2025, 2, 28) * HoursPerDay + 12))}

NavZones == {FixedZone(0), FixedZone(-5)}

InitialisedOn(u) ==
    /\ browser = 1 /\ context = 1 /\ page = 1
    /\ launched = 1 /\ openBrowsers = {1}
    /\ isLoggedIn = TRUE /\ siteAuth = TRUE
    /\ lastLogin = "succeeded"
    /\ url = u
    /\ editor = EditorClosed
    /\ boatActive \in BOOLEAN
    /\ nav = NavIdle /\ sda = SdaIdle /\ rng = RngIdle
    /\ outcome = NoOutcome /\ obs = NoObs

NavInit ==
    /\ InitialisedOn(Location("calendar", "b1"))
    /\ boatActive = TRUE
    /\ tz \in NavZones
    /\ uiMode \in {"calendar", "stuck"}
    /\ render \in RenderModes
    /\ calMonth \in CalMin..CalMax
    /\ today = calMonth

NavNext ==
    \/ \E date \in NavDates : CallNavigateToMonth(date)
    \/ NavRead
    \/ NavClick
    \/ NavPause
    \/ NavReread
    \/ NavReturn

SpecNav == NavInit /\ [][NavNext]_vars

(***************************************************************************)
(* Specification of the date-range iteration: an initialized, logged-in    *)
(* client on the owner's list, asked for ranges around the turn of         *)
(* February 2025 and around 9 March 2025, when the clocks of New York      *)
(* change.                                                                 *)
(***************************************************************************)

Chars2025_02_27 == <<"2","0","2","5","-","0","2","-","2","7">>
Chars2025_03_02 == <<"2","0","2","5","-","0","3","-","0","2">>
Chars2025_03_08 == <<"2","0","2","5","-","0","3","-","0","8">>
Chars2025_03_10 == <<"2","0","2","5","-","0","3","-","1","0">>

\* The longest range asked for, in days after the start.
MaxRangeDays == 3

RangeStarts == {Chars2025_02_27, Chars2025_03_01, Chars2025_03_02, Chars2025_03_08,
                CharsNotADate}
RangeEnds == {Chars2025_03_01, Chars2025_03_02, Chars2025_03_10}

\* The day number of a YYYY-MM-DD string.
DayNumber(s) == DateFromString(s).v \div HoursPerDay

RangeArgs ==
    {p \in RangeStarts \X RangeEnds :
        IsNaN(DateFromString(p[1])) \/ DayNumber(p[2]) - DayNumber(p[1]) <= MaxRangeDays}

\* America/New_York around 2025-03-09T07:00Z, when EST (-5) becomes EDT (-4).
NewYork == DstZone(-5, DaysFromCivil(2025, 3, 9) * HoursPerDay + 7, -4)

RangeZones == {FixedZone(0), FixedZone(-5), FixedZone(2), NewYork}

RangeInit ==
    /\ InitialisedOn(OwnerBoats)
    /\ boatActive = TRUE
    /\ tz \in RangeZones
    /\ uiMode \in {"calendar", "stuck"}
    /\ render = "english"
    /\ today = 2025 * 12 + 1
    /\ calMonth = today

\* The steps of a running setDateAvailability, with its navigateToMonth.
SdaSteps ==
    \/ SdaCalendar
    \/ NavRead
    \/ NavClick
    \/ NavPause
    \/ NavReread
    \/ SdaMonth
    \/ SdaCell
    \/ SdaForm
    \/ SdaSwitch
    \/ SdaRanges
    \/ SdaPrice
    \/ SdaSave

\* The caller makes one call.
RangeNext ==
    \/ /\ outcome = NoOutcome
       /\ \E p \in RangeArgs : \E a \in {BlockDay, OpenDay} :
             CallSetDateRangeAvailability("b1", p[1], p[2], a)
    \/ RngIterate
    \/ RngResume
    \/ RngReturn
    \/ SdaSteps

SpecRange == RangeInit /\ [][RangeNext]_vars

(***************************************************************************)
(* Specification of the day editor: an initialized, logged-in client in    *)
(* UTC, asked again and again to set the availability of 2 March 2025,     *)
(* with every shape of availability.                                       *)
(***************************************************************************)

DayAvailabilities ==
    {BlockDay, OpenDay, BlockedWithExtras, OpenPlain, OpenOneRange, OpenNoRanges}

DayInit ==
    /\ InitialisedOn(OwnerBoats)
    /\ boatActive = TRUE
    /\ tz = FixedZone(0)
    /\ uiMode = "calendar"
    /\ render = "english"
    /\ today = 2025 * 12 + 1
    /\ calMonth = today

DayNext ==
    \/ \E a \in DayAvailabilities : CallSetDateAvailability("b1", Chars2025_03_02, a)
    \/ SdaSteps
    \/ SdaReturn

SpecDay == DayInit /\ [][DayNext]_vars

(***************************************************************************)
(* Specification of the client: constructed, then used by a caller that    *)
(* awaits each call before the next.                                       *)
(***************************************************************************)

Init ==
    /\ browser = NoHandle /\ context = NoHandle /\ page = NoHandle
    /\ isLoggedIn = FALSE
    /\ lastLogin = "none"
    /\ launched = 0 /\ openBrowsers = {}
    /\ tz = NewYork
    /\ uiMode = "calendar"
    /\ render = "english"
    /\ today = 2025 * 12 + 1
    /\ calMonth = today
    /\ url = NoPage
    /\ siteAuth = FALSE
    /\ editor = EditorClosed
    /\ boatActive = TRUE
    /\ nav = NavIdle /\ sda = SdaIdle /\ rng = RngIdle
    /\ outcome = NoOutcome /\ obs = NoObs

\* The caller's boat, and the day it works on.
ClientBoat == "b1"
ClientDay == Chars2025_03_02

Next ==
    \/ Initialize
    \/ Close
    \/ \E c \in Credentials : Login(c)
    \/ NavigateToOwnerDashboard
    \/ GetBoatsList
    \/ EditBoat(ClientBoat)
    \/ NavigateToBoatCalendar(ClientBoat)
    \/ ToggleBoatStatus(ClientBoat, FALSE)
    \/ CallNavigateToMonth(StringArg(ClientDay))
    \/ NavReturn
    \/ CallSetDateAvailability(ClientBoat, ClientDay, OpenDay)
    \/ SdaSteps
    \/ SdaReturn
    \/ \E s \in {ClientDay, Chars2025_03_08} :
          CallSetDateRangeAvailability(ClientBoat, s, ClientDay, BlockDay)
    \/ RngIterate
    \/ RngResume
    \/ RngReturn

Spec == Init /\ [][Next]_vars

(***************************************************************************)
(* Specification of the session: the constructed client is initialized,    *)
(* logged in, sent to the dashboard, has its boat activated and            *)
(* deactivated, and is closed, in any order.                               *)
(***************************************************************************)

SessionNext ==
    \/ Initialize
    \/ Close
    \/ \E c \in Credentials : Login(c)
    \/ NavigateToOwnerDashboard
    \/ \E activate \in BOOLEAN : ToggleBoatStatus(ClientBoat, activate)

SpecSession == Init /\ [][SessionNext]_vars

(***************************************************************************)
(* Properties of navigateToMonth                                           *)
(***************************************************************************)

\* The first textContent() of the call threw: no label was read.
NavFirstReadThrew == nav.pc = "done" /\ nav.threw /\ obs.navActions = 0

\* The call has read the label.
NavHasRead == nav.pc \in {"loop", "pause", "done"} /\ ~NavFirstReadThrew

\* The call has read the label and the label was not the target's string.
NavPastEqualityTest == NavHasRead /\ nav.currentMonthYear # nav.targetMonthYear

\* The call ran to its last statement and no await threw.
NavCompleted == nav.pc = "done" /\ ~nav.threw

\* The local year and 0-based month of the target date.
TargetFields == LocalFields(tz, nav.targetDate.v)

\* C1: when the label differs from the target's "Month YYYY" and the computed
\* difference is d > 0, a call that completes has issued exactly d "next
\* month" clicks and no "previous month" click; when d < 0, exactly |d|
\* "previous month" clicks and no "next month" click.  No call ever issues
\* both kinds, and no call issues more than |d| clicks.
C1_ClicksFollowDelta ==
    /\ ~(obs.nextClicks > 0 /\ obs.prevClicks > 0)
    /\ NavPastEqualityTest =>
         LET d == nav.monthDiff
         IN  /\ JsGt(d, Num(0)) =>
                  /\ obs.prevClicks = 0 /\ obs.nextClicks <= d.v
                  /\ NavCompleted => obs.nextClicks = d.v
             /\ JsLt(d, Num(0)) =>
                  /\ obs.nextClicks = 0 /\ obs.prevClicks <= -d.v
                  /\ NavCompleted => obs.prevClicks = -d.v

\* A call that completed after d >= 2 forward clicks.
C1_Witness ==
    /\ NavPastEqualityTest /\ NavCompleted
    /\ JsGt(nav.monthDiff, Num(1))
    /\ obs.nextClicks = nav.monthDiff.v /\ obs.prevClicks = 0

\* C2: when the label shown at the start, once read, is textually the
\* target's "Month YYYY", the call returns true at once: no click is issued,
\* the read is its only UI action and the month shown is the one shown at
\* the start.
C2_NoOpWhenAlreadyThere ==
    (NavHasRead /\ obs.startLabel = nav.targetMonthYear) =>
        /\ nav.pc = "done" /\ nav.result = TRUE /\ ~nav.threw
        /\ obs.nextClicks = 0 /\ obs.prevClicks = 0
        /\ label = obs.startLabel
        /\ obs.navActions = 1

\* The call returned at the equality test, the calendar showing March 2025.
C2_Witness ==
    /\ nav.pc = "done" /\ nav.result = TRUE
    /\ obs.startLabel = meses[3] \o <<" ">> \o NatToString(2025)
    /\ obs.startLabel = nav.targetMonthYear
    /\ obs.nextClicks + obs.prevClicks = 0

\* C3: for a well-formed label (month mi of the January..December list, year
\* y) and a valid target, the difference computed is
\* (targetYear - y) * 12 + (targetMonthIndex - mi); January 2025 -> March
\* 2025 gives 2 and January 2025 -> December 2024 gives -1.
C3_MonthDeltaLinear ==
    (NavPastEqualityTest /\ ~IsNaN(nav.targetDate)) =>
        /\ \A mi \in 0..11, y \in (CalMin \div 12)..(CalMax \div 12) :
             nav.currentMonthYear = meses[mi + 1] \o <<" ">> \o NatToString(y) =>
                nav.monthDiff = Num((TargetFields.y - y) * 12 + ((TargetFields.m - 1) - mi))
        /\ nav.currentMonthYear = meses[1] \o <<" ">> \o NatToString(2025) =>
             /\ (TargetFields.y = 2025 /\ TargetFields.m = 3) => nav.monthDiff = Num(2)
             /\ (TargetFields.y = 2024 /\ TargetFields.m = 12) => nav.monthDiff = Num(-1)

\* January 2025 -> December 2024 was computed as -1.
C3_Witness ==
    /\ NavPastEqualityTest /\ ~IsNaN(nav.targetDate)
    /\ nav.currentMonthYear = meses[1] \o <<" ">> \o NatToString(2025)
    /\ TargetFields.y = 2024 /\ TargetFields.m = 12
    /\ nav.monthDiff = Num(-1)

\* s occurs in text as a run of consecutive letters.
Contains(text, s) ==
    \E from \in 1..Len(text) : \E to \in from..Len(text) : SubSeq(text, from, to) = s

\* C6: a call that passed the equality test and completed without an
\* exception returns true exactly when the label shown after the clicks
\* contains the target's month name; the year plays no part.
C6_ResultIsMonthNameCheck ==
    (NavPastEqualityTest /\ NavCompleted /\ ~IsNaN(nav.targetDate)) =>
        (nav.result <=> (label # Null /\ Contains(label, meses[TargetFields.m])))

\* The call returned true on a label of another year than the target's.
C6_Witness ==
    /\ NavPastEqualityTest /\ NavCompleted /\ ~IsNaN(nav.targetDate)
    /\ nav.result = TRUE
    /\ render = "english"
    /\ calMonth \div 12 # TargetFields.y

\* C7: on an initialized client navigateToMonth never raises: once an await
\* of the call has thrown (the first read, a click, a pause or the re-read,
\* also after clicks were issued), the call ends by returning false.
C7_NavNeverRaises ==
    /\ (nav.pc # "idle" /\ obs.uiFailed) => (nav.pc = "done" /\ nav.result = FALSE)
    /\ nav.pc \in {"idle", "read", "loop", "pause", "done"}
    /\ (outcome.op = "navigateToMonth" /\ outcome.session) =>
          /\ outcome.kind = "returned"
          /\ obs.uiFailed => outcome.value = FALSE

\* A click threw after two clicks had been issued, and the call returns false.
C7_Witness ==
    /\ nav.pc = "done" /\ nav.threw /\ obs.uiFailed
    /\ obs.nextClicks + obs.prevClicks >= 2
    /\ nav.result = FALSE

\* C10: an empty or absent (null) label is not rejected: the difference
\* computed is targetYear * 12 + targetMonthIndex + 1 (month index -1, year
\* 0), and for a target with a positive year a call that completes has
\* issued that many "next month" clicks.
C10_EmptyLabelDelta ==
    (NavPastEqualityTest /\ nav.currentMonthYear \in {<<>>, Null} /\ ~IsNaN(nav.targetDate)) =>
        LET d == TargetFields.y * 12 + (TargetFields.m - 1) + 1
        IN  /\ nav.monthDiff = Num(d)
            /\ (TargetFields.y > 0 /\ NavCompleted) =>
                  obs.nextClicks = d /\ obs.prevClicks = 0

\* On an empty label a call for March of year 1 completed after 15 clicks.
C10_Witness ==
    /\ NavPastEqualityTest /\ NavCompleted
    /\ nav.currentMonthYear = <<>>
    /\ ~IsNaN(nav.targetDate) /\ TargetFields.y = 1 /\ TargetFields.m = 3
    /\ obs.nextClicks = 15

(***************************************************************************)
(* Properties of setDateRangeAvailability                                  *)
(***************************************************************************)

\* The loop of the range call has ended and the call is about to return.
RangeAtReturn == rng.pc = "loop" /\ ~RangeContinues(rng)

\* The YYYY-MM-DD strings of the calendar days from day number d to day
\* number e, in ascending order.
RECURSIVE DaysBetween(_, _)
DaysBetween(d, e) ==
    IF d > e THEN <<>> ELSE <<ISODate(d * HoursPerDay)>> \o DaysBetween(d + 1, e)

\* C4: for start <= end, the range call invokes setDateAvailability once for
\* each calendar day from start to end inclusive, with that day's YYYY-MM-DD,
\* in ascending order, none skipped and none repeated.
C4_EveryDayOnce ==
    (RangeAtReturn /\ obs.session /\ ~IsNaN(rng.start) /\ ~IsNaN(rng.end)
       /\ DayNumber(rng.startDate) <= DayNumber(rng.endDate)) =>
        obs.calls = DaysBetween(DayNumber(rng.startDate), DayNumber(rng.endDate))

\* The range 2025-02-27 .. 2025-03-01 was served by exactly three calls:
\* 02-27, 02-28, 03-01.
C4_Witness ==
    /\ RangeAtReturn /\ obs.session
    /\ rng.startDate = Chars2025_02_27 /\ rng.endDate = Chars2025_03_01
    /\ obs.calls = <<Chars2025_02_27,
                     <<"2","0","2","5","-","0","2","-","2","8">>,
                     Chars2025_03_01>>

\* The dateStr values of the iterations of the loop from `day` on, whatever
\* the calls return (at most n of them).
RECURSIVE Iterations(_, _, _, _)
Iterations(z, day, end, n) ==
    IF n = 0 \/ ~JsLe(day, end) THEN <<>>
    ELSE <<ISODate(day.v)>> \o Iterations(z, NextDay(z, day), end, n - 1)

\* C5: the range call returns true exactly when every per-day call returned
\* true, and when some day's call returns false every remaining calendar day
\* up to end still receives its call and the result is false.
C5_AllRemainingDaysCalled ==
    (RangeAtReturn /\ obs.session /\ ~IsNaN(rng.start) /\ ~IsNaN(rng.end)) =>
        /\ rng.success <=> \A i \in 1..Len(obs.results) : obs.results[i]
        /\ \A i \in 1..Len(obs.results) :
              ~obs.results[i] =>
                 /\ ~rng.success
                 /\ \A k \in (DayNumber(obs.calls[i]) + 1)..DayNumber(rng.endDate) :
                       \E j \in 1..Len(obs.calls) : obs.calls[j] = ISODate(k * HoursPerDay)

\* The part of C5 that holds of the loop itself: the result is the
\* conjunction of the per-day results, and a call that returns false does
\* not end the iteration: the calls made are those of the whole loop.
C5_AggregateWithoutShortCircuit ==
    /\ rng.pc # "idle" => (rng.success <=> \A i \in 1..Len(obs.results) : obs.results[i])
    /\ RangeAtReturn =>
         /\ Len(obs.results) = Len(obs.calls)
         /\ obs.calls = Iterations(tz, rng.start, rng.end, MaxRangeDays + 2)
    /\ (outcome.op = "setDateRangeAvailability" /\ outcome.kind = "returned") =>
         (outcome.value <=> \A i \in 1..Len(obs.results) : obs.results[i])

\* The first of three days failed, the other two were still called, and the
\* result is false.
C5_Witness ==
    /\ outcome.op = "setDateRangeAvailability" /\ outcome.kind = "returned"
    /\ Len(obs.calls) = 3 /\ Len(obs.results) = 3
    /\ ~obs.results[1] /\ obs.results[2] /\ obs.results[3]
    /\ outcome.value = FALSE

(***************************************************************************)
(* Properties of the error boundary of the client                          *)
(***************************************************************************)

\* The operations that need a session.
SessionOperations ==
    {"login", "navigateToOwnerDashboard", "getBoatsList", "editBoat",
     "navigateToBoatCalendar", "navigateToMonth", "setDateAvailability",
     "toggleBoatStatus", "setDateRangeAvailability"}

\* The value an operation reports a failure with: success false, the empty
\* list, false.
FailureValue(o) == o.value = FALSE /\ o.boats = <<>>

\* C8: an operation invoked while the client has no page raises the
\* not-initialized error instead of returning a result, whatever its
\* arguments.
C8_RaisesWithoutSession ==
    (outcome.op \in SessionOperations /\ ~outcome.session) =>
        (outcome.kind = "raised" /\ outcome.message = NotInitializedMessage)

\* C9 as stated: on an initialized client no operation rejects, and any
\* failure of the UI during the call makes it return its failure value.
C9_AnyUiFailureReported ==
    (outcome.op \in SessionOperations /\ outcome.session) =>
        /\ outcome.kind = "returned"
        /\ obs.uiFailed => FailureValue(outcome)

\* C9, amended: on an initialized client no operation rejects, and a failure
\* that reaches the catch block of the operation (or of a nested operation
\* whose result it tests) makes it return its failure value; a failure that
\* the operation tolerates (the wait after submitting the login form, a menu
\* click with a direct navigation as fallback) does not.
C9_CaughtFailureReported ==
    (outcome.op \in SessionOperations /\ outcome.session) =>
        /\ outcome.kind = "returned"
        /\ obs.hardFailed => FailureValue(outcome)

\* toggleBoatStatus clicked the toggle, the confirmation then failed, and the
\* call returned false.
C9_Witness ==
    /\ page # NoHandle /\ isLoggedIn
    /\ outcome.op = "toggleBoatStatus" /\ outcome.session
    /\ outcome.kind = "returned" /\ outcome.value = FALSE
    /\ obs.hardFailed /\ obs.toggleClicks = 1

(***************************************************************************)
(* Further properties of navigateToMonth                                   *)
(***************************************************************************)

\* C11: when the label read differs textually from the target's "Month YYYY"
\* but the difference computed from it is 0 (a label with a trailing blank),
\* no click is issued, the month shown stays as it was, and a call that
\* completes returns exactly whether the re-read label contains the
\* target's month name.
C11_ZeroDeltaNoClick ==
    (NavPastEqualityTest /\ nav.monthDiff = Num(0)) =>
        /\ obs.nextClicks = 0 /\ obs.prevClicks = 0
        /\ nav.pc \in {"loop", "done"}
        /\ label = obs.startLabel
        /\ NavCompleted =>
             /\ obs.navActions = 2
             /\ nav.result <=> (label # Null /\ Contains(label, meses[TargetFields.m]))

\* On the label "March 2025 " a call for March 2025 completed without a
\* click and returned true.
C11_Witness ==
    /\ NavPastEqualityTest /\ NavCompleted
    /\ nav.monthDiff = Num(0)
    /\ nav.currentMonthYear = meses[3] \o <<" ", "2", "0", "2", "5", " ">>
    /\ obs.nextClicks + obs.prevClicks = 0
    /\ nav.result = TRUE

(***************************************************************************)
(* Order of the UI actions                                                 *)
(***************************************************************************)

\* navigateToMonth is about to issue a UI action.
NavActing == nav.pc \in {"read", "loop", "pause"}

\* setDateAvailability is about to issue a UI action of its own.
SdaActing == sda.pc \in {"calendar", "cell", "form", "switch", "ranges", "price", "save"}

\* C12: within a range call the days are strictly sequential: a day's call
\* starts only when every earlier call has returned, and the range loop
\* waits while it runs; within navigateToMonth every click has had its pause
\* before the next click or the re-read; at no time are two UI actions of
\* the call pending.
C12_StrictlySequential ==
    /\ rng.pc = "await" <=> (sda.pc # "idle" /\ sda.caller = "rng")
    /\ rng.pc # "idle" =>
          Len(obs.calls) = Len(obs.results) + (IF rng.pc = "await" THEN 1 ELSE 0)
    /\ (nav.pc # "idle" /\ nav.caller = "sda") => sda.pc = "month"
    /\ sda.pc = "month" => (nav.pc # "idle" /\ nav.caller = "sda")
    /\ ~(NavActing /\ SdaActing)
    /\ nav.pc = "loop" => obs.nextClicks + obs.prevClicks = nav.i
    /\ nav.pc = "pause" => obs.nextClicks + obs.prevClicks = nav.i + 1
    /\ (NavPastEqualityTest /\ NavCompleted) => obs.nextClicks + obs.prevClicks = nav.i

\* The second day of a range is in its month navigation, after a click and
\* before its pause, the first day's call having returned.
C12_Witness ==
    /\ rng.pc = "await" /\ sda.pc = "month" /\ nav.pc = "pause"
    /\ Len(obs.calls) = 2 /\ Len(obs.results) = 1
    /\ obs.nextClicks = 1

(***************************************************************************)
(* Properties of login                                                     *)
(***************************************************************************)

\* A login call on an initialized client has just returned.
LoginReturned == outcome.op = "login" /\ outcome.session /\ outcome.kind = "returned"

\* C13 as stated: a login with credentials the site does not accept returns
\* success=false with a message containing 'Credenciales inválidas' and
\* leaves the client not logged in.
C13_InvalidCredentialsRejected ==
    (outcome.op = "login" /\ outcome.session /\ obs.login.credentials = "invalid") =>
        /\ outcome.kind = "returned" /\ outcome.value = FALSE
        /\ Contains(outcome.message, <<"Credenciales", "inválidas">>)
        /\ isLoggedIn = FALSE

\* C13, amended: such a login returns success=false; when the form was
\* submitted without exception the message contains 'Credenciales inválidas'
\* and isLoggedIn is false afterwards; when a step of the form threw, the
\* message is 'Error durante el login: ...' and isLoggedIn is left as it was.
C13_InvalidCredentialsFail ==
    (outcome.op = "login" /\ outcome.session /\ obs.login.credentials = "invalid") =>
        /\ outcome.kind = "returned" /\ outcome.value = FALSE
        /\ obs.login.submitted =>
             /\ Contains(outcome.message, <<"Credenciales", "inválidas">>)
             /\ isLoggedIn = FALSE
        /\ ~obs.login.submitted =>
             /\ SubSeq(outcome.message, 1, 4) = <<"Error", "durante", "el", "login:">>
             /\ ~Contains(outcome.message, <<"Credenciales", "inválidas">>)
             /\ isLoggedIn = obs.login.before

\* Credentials the site does not accept were submitted and refused.
C13_Witness ==
    /\ LoginReturned /\ obs.login.credentials = "invalid" /\ obs.login.submitted
    /\ outcome.value = FALSE /\ outcome.message = LoginFailedMessage
    /\ isLoggedIn = FALSE /\ siteAuth = FALSE

\* C14 as stated: login returns success=true, with a message containing
\* 'exitoso', exactly when the form was submitted without exception and at
\* least one logged-in indicator is on the page; exactly then isLoggedIn
\* becomes true.
C14_SuccessIffIndicatorPresent ==
    LoginReturned =>
        LET present == obs.login.submitted /\ obs.login.shown # {}
        IN  /\ outcome.value <=> present
            /\ outcome.value => Contains(outcome.message, <<"exitoso">>)
            /\ present => isLoggedIn
            /\ (isLoggedIn /\ ~obs.login.before) => present

\* C14, amended: login returns success=true, with a message containing
\* 'exitoso', exactly when the form was submitted without exception and
\* checkIfLoggedIn counted at least one indicator (its counts not throwing);
\* then isLoggedIn is true, and whenever the form was submitted isLoggedIn
\* is the result; when a step of the form threw isLoggedIn is left as it was.
C14_SuccessIffIndicatorCounted ==
    LoginReturned =>
        LET counted == obs.login.submitted /\ obs.login.counted /\ obs.login.shown # {}
        IN  /\ outcome.value <=> counted
            /\ outcome.value <=> Contains(outcome.message, <<"exitoso">>)
            /\ obs.login.submitted => (isLoggedIn <=> outcome.value)
            /\ ~obs.login.submitted => isLoggedIn = obs.login.before

\* A login succeeded on a page that shows the user menu only.
C14_Witness ==
    /\ LoginReturned /\ outcome.value = TRUE
    /\ outcome.message = LoginSucceededMessage
    /\ obs.login.shown = {"userMenu"} /\ ~obs.login.before
    /\ isLoggedIn

(***************************************************************************)
(* Properties of the life cycle                                            *)
(***************************************************************************)

\* C15: a client can be cycled initialize() -> close() -> initialize():
\* after each close() that returns, browser, context and page are null,
\* isLoggedIn is false and the browser is closed; after each initialize()
\* that returns the three fields are those of the browser just launched,
\* and an operation called on the page it opened does not raise the
\* not-initialized error.
C15_LifecycleCycles ==
    /\ (outcome.op = "close" /\ outcome.kind = "returned") =>
          /\ browser = NoHandle /\ context = NoHandle /\ page = NoHandle
          /\ isLoggedIn = FALSE
    /\ (outcome.op = "initialize" /\ outcome.kind = "returned") =>
          /\ browser = launched /\ context = launched /\ page = launched
          /\ launched \in openBrowsers
          /\ url = HomePage
    /\ (outcome.op \in SessionOperations /\ page # NoHandle) =>
          outcome.message # NotInitializedMessage

\* On the second browser of the client, the first being closed, an operation
\* returned.
C15_Witness ==
    /\ launched = 2 /\ openBrowsers = {2} /\ page = 2
    /\ outcome.op \in SessionOperations /\ outcome.kind = "returned"
    /\ isLoggedIn

(***************************************************************************)
(* navigateToMonth: invalid dates, well-behaved calendars, true results    *)
(***************************************************************************)

\* C16: for a date string that does not parse, the month-name lookup yields
\* undefined, the difference is NaN, no click is ever issued and the call
\* ends by returning false: it neither raises nor reports success.
C16_InvalidDateReturnsFalse ==
    (nav.pc # "idle" /\ IsNaN(nav.targetDate)) =>
        /\ nav.targetMonth = Undefined
        /\ obs.nextClicks = 0 /\ obs.prevClicks = 0
        /\ NavHasRead => (IsNaN(nav.monthDiff) /\ nav.pc \in {"loop", "done"})
        /\ nav.pc = "done" => nav.result = FALSE
        /\ label = obs.startLabel

\* A call for the string 'soon' read the label twice and returned false.
C16_Witness ==
    /\ nav.pc = "done" /\ ~nav.threw /\ IsNaN(nav.targetDate)
    /\ obs.navActions = 2 /\ render = "english"
    /\ nav.result = FALSE

\* The month a caller asks for, as year * 12 + month index: the YYYY and MM
\* written in a 'YYYY-MM-DD' string, the local year and month of a Date.
IntendedMonth(date) ==
    LET f == IF date.isString THEN UTCFields(DateFromString(date.s).v)
             ELSE LocalFields(tz, date.t.v)
    IN  f.y * 12 + (f.m - 1)

\* The calendar moves one month per click on every step towards the month
\* asked for, the label is well formed, the target valid and no await threw.
WellBehavedCalendar ==
    /\ uiMode = "calendar" /\ render = "english"
    /\ ~IsNaN(nav.targetDate)
    /\ IntendedMonth(nav.date) \in CalMin..CalMax

\* "Month YYYY" of a month given as year * 12 + month index.
MonthYearText(cm) == meses[(cm % 12) + 1] \o <<" ">> \o NatToString(cm \div 12)

\* C17: against a calendar that moves one month per click, from every
\* well-formed label and for every valid target, a call that completes
\* leaves the label on the "Month YYYY" asked for and returns true.
C17_ReachesTheMonthAskedFor ==
    (nav.pc = "done" /\ ~nav.threw /\ WellBehavedCalendar) =>
        /\ nav.result = TRUE
        /\ label = MonthYearText(IntendedMonth(nav.date))

\* What holds of the navigation itself: such a call leaves the label on the
\* "Month YYYY" of the local month of the Date the argument was parsed to,
\* and returns true.
C17_ReachesTheMonthParsed ==
    (nav.pc = "done" /\ ~nav.threw /\ WellBehavedCalendar) =>
        /\ nav.result = TRUE
        /\ label = MonthYearText(TargetFields.y * 12 + (TargetFields.m - 1))
        /\ label = nav.targetMonthYear

\* From "January 2025" a call for '2025-03-31' clicked twice, ended on
\* "March 2025" and returned true.
C17_Witness ==
    /\ nav.pc = "done" /\ ~nav.threw /\ WellBehavedCalendar
    /\ nav.date = StringArg(Chars2025_03_31)
    /\ obs.startLabel = MonthYearText(2025 * 12)
    /\ obs.nextClicks = 2
    /\ label = MonthYearText(2025 * 12 + 2) /\ nav.result = TRUE

\* C18: whenever navigateToMonth returns true for a valid target, the label
\* then displayed names both the month and the year of the target (of the
\* Date the argument was parsed to), whatever the UI did with the clicks.
C18_TrueMeansMonthAndYear ==
    (nav.pc = "done" /\ nav.result = TRUE /\ ~IsNaN(nav.targetDate)) =>
        /\ label # Null
        /\ Contains(label, meses[TargetFields.m])
        /\ Contains(label, NatToString(TargetFields.y))

\* A call returned true after clicks, the label naming month and year of
\* the target.
C18_Witness ==
    /\ nav.pc = "done" /\ nav.result = TRUE /\ ~IsNaN(nav.targetDate)
    /\ obs.prevClicks = 1
    /\ label = nav.targetMonthYear

(***************************************************************************)
(* Properties of setDateAvailability                                       *)
(***************************************************************************)

\* Year, month and day written in a 'YYYY-MM-DD' string.
Written(s) == UTCFields(DateFromString(s).v)

\* The day cell has been double-clicked and its editor is open.
SdaCellOpened == sda.pc = "form" /\ editor.open

\* C19: for every 'YYYY-MM-DD' and every host zone, when setDateAvailability
\* has double-clicked the day cell the calendar shows month MM of year YYYY
\* and the cell is the one named by the day number DD of the string; and the
\* k-th date string a range call produces is the k-th calendar day of the
\* range.
C19_StringDenotesItsDay ==
    /\ SdaCellOpened =>
          /\ calMonth = Written(sda.date).y * 12 + (Written(sda.date).m - 1)
          /\ editor.day = NatToString(Written(sda.date).d)
    /\ (rng.pc # "idle" /\ obs.session /\ ~IsNaN(rng.start)) =>
          \A k \in 1..Len(obs.calls) :
             obs.calls[k] = ISODate((DayNumber(rng.startDate) + k - 1) * HoursPerDay)

\* East of UTC the call for '2025-03-01' opened the cell 1 of March 2025.
C19_Witness ==
    /\ SdaCellOpened /\ tz = FixedZone(2)
    /\ sda.date = Chars2025_03_01
    /\ calMonth = 2025 * 12 + 2 /\ editor.day = <<"1">>

\* The steps of setDateAvailability in the order of its code.
StepOrder == <<"calendar", "month", "cell", "form", "switch", "ranges", "price", "save">>
Rank(name) == CHOOSE i \in 1..Len(StepOrder) : StepOrder[i] = name

\* A setDateAvailability call is past its navigateToBoatCalendar.
SdaUnderWay == sda.pc \notin {"idle", "calendar"}

\* C20: setDateAvailability takes its steps in the order calendar
\* navigation, month navigation, double click of the day cell, edit form,
\* 'Save Changes', each only after every earlier one succeeded: when the
\* calendar navigation returns false no month navigation happens, when
\* either navigation returns false no cell is double-clicked and nothing is
\* saved, and the call returns true only after a successful save.
C20_FixedOrderStopsAtFirstFailure ==
    SdaUnderWay =>
        LET steps == obs.steps
            n == Len(steps)
        IN  /\ n >= 1 /\ steps[1][1] = "calendar"
            /\ n >= 2 => steps[2][1] = "month"
            /\ n >= 3 => steps[3][1] = "cell"
            /\ n >= 4 => steps[4][1] = "form"
            /\ \A i \in 1..(n - 1) :
                  steps[i][2] /\ Rank(steps[i][1]) < Rank(steps[i + 1][1])
            /\ ~steps[1][2] =>
                  /\ sda.pc = "done" /\ sda.result = FALSE
                  /\ nav.pc = "idle" /\ obs.navActions = 0
            /\ (n >= 2 /\ ~steps[2][2]) => (sda.pc = "done" /\ sda.result = FALSE)
            /\ sda.pc = "done" =>
                  (sda.result <=> (steps[n] = <<"save", TRUE>>))
            /\ (sda.pc = "done" /\ ~steps[n][2]) => sda.result = FALSE

\* The calendar navigation succeeded, the month navigation returned false
\* after a click, and the call ended there with false.
C20_Witness ==
    /\ sda.pc = "done" /\ sda.result = FALSE
    /\ obs.steps = <<(<<"calendar", TRUE>>), (<<"month", FALSE>>)>>
    /\ obs.nextClicks = 1

(***************************************************************************)
(* Properties of the day editor                                            *)
(***************************************************************************)

\* The running setDateAvailability is past its availability switch.
SdaPastSwitch ==
    sda.pc \in {"ranges", "price", "save"} \/ (sda.pc = "done" /\ sda.result)

\* What the last 'Save Changes' stored.
LastSaved == editor.saved[1]

\* C21: in setDateAvailability the availability switch is clicked exactly
\* once when the requested isAvailable differs from the checked state read
\* from the form and not at all when they are equal; the switch flipping on
\* each click, the state of the switch from there to 'Save Changes', and the
\* state stored by the save, is the requested isAvailable. So a call that
\* follows a successful call for the same date string with the same
\* availability stores the same state again.
C21_SwitchFollowsRequest ==
    /\ sda.pc # "idle" => obs.switchClicks <= 1
    /\ SdaPastSwitch =>
         /\ obs.switchClicks =
                IF sda.availability.isAvailable # sda.isCurrentlyAvailable THEN 1 ELSE 0
         /\ sda.pc # "done" => editor.open /\ editor.checked = sda.availability.isAvailable
         /\ sda.pc = "done" =>
                /\ editor.saved # <<>>
                /\ LastSaved.checked = sda.availability.isAvailable
                /\ LastSaved.day = sda.day

\* C21 witness: a range call has served the same date string twice, both
\* calls succeeding; the second found the switch as requested and did not
\* click it.
C21_Witness ==
    /\ rng.pc = "await" /\ sda.pc = "done" /\ sda.result
    /\ Len(obs.calls) = 3 /\ obs.calls[2] = obs.calls[3]
    /\ obs.results = <<TRUE, TRUE>>
    /\ sda.availability.isAvailable = sda.isCurrentlyAvailable
    /\ obs.switchClicks = 0
    /\ LastSaved.checked = sda.availability.isAvailable

\* C21 second witness: the switch read differs from the request and one
\* click brought it to the requested state.
C21_WitnessClicked ==
    /\ sda.pc = "save"
    /\ sda.availability.isAvailable # sda.isCurrentlyAvailable
    /\ obs.switchClicks = 1
    /\ editor.checked = sda.availability.isAvailable

\* The running setDateAvailability has attempted the step of that name.
Touched(name) == \E i \in DOMAIN obs.steps : obs.steps[i][1] = name
\* The step of that name has succeeded.
Completed(name) == \E i \in DOMAIN obs.steps : obs.steps[i] = <<name, TRUE>>

\* The selector pairs and the price field of the form the call works on: of
\* the open form, or as 'Save Changes' stored them.
FormRows == IF Completed("save") THEN LastSaved.rows ELSE editor.rows
FormPrice == IF Completed("save") THEN LastSaved.price ELSE editor.price

\* C22: in setDateAvailability the time-range and price controls are used
\* only when isAvailable is true: with isAvailable false neither is touched,
\* whatever ranges and price the availability carries. With isAvailable true
\* and n >= 1 ranges, 'Add new range' is clicked n - 1 times (never more, and
\* exactly n - 1 once the ranges are through) and range i is in the i-th
\* from/to selector pair, in list order. A call that reaches 'Save Changes'
\* has filled the price field exactly when priceAdjustment is defined, the
\* value 0 included, and has set the ranges exactly when there are some.
C22_RangesAndPriceOnlyWhenAvailable ==
    sda.pc # "idle" =>
        LET a == sda.availability
            list == a.unavailableTimeRanges.list
            n == Len(list)
        IN  /\ Touched("ranges") =>
                a.isAvailable /\ a.unavailableTimeRanges.defined /\ n >= 1
            /\ Touched("price") => a.isAvailable /\ a.priceAdjustment.defined
            /\ obs.addRangeClicks <= IF n >= 1 THEN n - 1 ELSE 0
            /\ Completed("cell") =>
                /\ ~Touched("ranges") => FormRows = <<>> /\ obs.addRangeClicks = 0
                /\ ~Touched("price") => FormPrice = <<>>
                /\ Completed("ranges") =>
                     /\ obs.addRangeClicks = n - 1
                     /\ Len(FormRows) = n
                     /\ \A i \in 1..n : FormRows[i] = list[i]
                /\ Completed("price") =>
                     FormPrice = NumToString(Num(a.priceAdjustment.v))
            /\ (sda.pc = "save" \/ Touched("save")) =>
                /\ Completed("ranges") <=>
                     (a.isAvailable /\ a.unavailableTimeRanges.defined /\ n >= 1)
                /\ Completed("price") <=> (a.isAvailable /\ a.priceAdjustment.defined)

\* C22 witness: an available day with two ranges and a price adjustment of
\* 0 was saved: one click on 'Add new range', both ranges in their pairs,
\* the price field holding "0".
C22_Witness ==
    /\ sda.pc = "done" /\ sda.result /\ sda.availability = OpenDay
    /\ obs.addRangeClicks = 1
    /\ LastSaved.rows = OpenDay.unavailableTimeRanges.list
    /\ LastSaved.price = <<"0">>

\* C22, further cases reached: a blocked day that carries a range and a
\* price is saved with neither control touched; a single range needs no
\* click on 'Add new range'; the second range failed after the first was
\* written.
C22_WitnessBlocked ==
    /\ sda.pc = "done" /\ sda.result /\ sda.availability = BlockedWithExtras
    /\ LastSaved.rows = <<>> /\ LastSaved.price = <<>>
    /\ ~Touched("ranges") /\ ~Touched("price")
C22_WitnessOneRange ==
    /\ sda.pc = "done" /\ sda.result /\ sda.availability = OpenOneRange
    /\ obs.addRangeClicks = 0
    /\ LastSaved.rows = OpenOneRange.unavailableTimeRanges.list
    /\ LastSaved.price = <<>>
C22_WitnessPartial ==
    /\ sda.pc = "done" /\ ~sda.result /\ sda.availability = OpenDay
    /\ obs.addRangeClicks = 1
    /\ editor.rows = <<OpenDay.unavailableTimeRanges.list[1], EmptyRow>>

(***************************************************************************)
(* Properties of toggleBoatStatus                                          *)
(***************************************************************************)

\* C23 as stated: toggleBoatStatus(boatId, activate) clicks the status
\* toggle only when the listing's state differs from the requested one; when
\* editBoat succeeds and the listing is already in the requested state it
\* clicks nothing and returns true; when editBoat fails it returns false
\* without a click; of two calls in a row with the same argument at most one
\* changes the state.
C23_AlreadyThereReturnsTrue ==
    ToggleReturned =>
        LET c == obs.toggle
        IN  /\ obs.toggleClicks = 1 => c.before # c.activate
            /\ (c.edited /\ c.before = c.activate) =>
                 outcome.value /\ obs.toggleClicks = 0 /\ ~ToggleChanged
            /\ ~c.edited => ~outcome.value /\ obs.toggleClicks = 0 /\ ~ToggleChanged
            /\ (c.follows /\ c.lastActivate = c.activate) => ~(c.lastChanged /\ ToggleChanged)

\* C23, amended: toggleBoatStatus(boatId, activate) clicks the status
\* toggle at most once, and only when its editBoat succeeded, the text of
\* the toggle was read and the state read differs from the requested one.
\* When editBoat succeeds and the text read shows the requested state it
\* clicks nothing and returns true; when editBoat fails, or reading the
\* text throws, it returns false without a click; the state is left alone
\* in these cases, and a state that changes becomes the requested one. So of
\* two calls in a row with the same argument at most one changes the state.
C23_ToggleOnlyWhenNeeded ==
    ToggleReturned =>
        LET c == obs.toggle
        IN  /\ obs.toggleClicks <= 1
            /\ obs.toggleClicks = 1 => c.edited /\ c.read /\ c.before # c.activate
            /\ (c.edited /\ c.read /\ c.before = c.activate) =>
                 outcome.value /\ obs.toggleClicks = 0 /\ ~ToggleChanged
            /\ (~c.edited \/ ~c.read) =>
                 ~outcome.value /\ obs.toggleClicks = 0 /\ ~ToggleChanged
            /\ ToggleChanged => boatActive = c.activate /\ obs.toggleClicks = 1
            /\ (c.follows /\ c.lastActivate = c.activate) => ~(c.lastChanged /\ ToggleChanged)

\* C23 witness: the second of two calls with the same argument; the first
\* changed the listing's state, the second found it as requested, clicked
\* nothing and returned true.
C23_Witness ==
    /\ ToggleReturned /\ outcome.value
    /\ obs.toggle.follows /\ obs.toggle.lastActivate = obs.toggle.activate
    /\ obs.toggle.lastChanged
    /\ obs.toggle.edited /\ obs.toggle.read
    /\ obs.toggle.before = obs.toggle.activate
    /\ obs.toggleClicks = 0

\* C23, further cases reached: editBoat failed; the text of the toggle
\* could not be read on a listing already in the requested state. Both
\* return false without a click.
C23_WitnessEditFailed ==
    /\ ToggleReturned /\ ~outcome.value /\ ~obs.toggle.edited
    /\ obs.toggle.before # obs.toggle.activate /\ obs.toggleClicks = 0
C23_WitnessUnread ==
    /\ ToggleReturned /\ ~outcome.value /\ obs.toggle.edited /\ ~obs.toggle.read
    /\ obs.toggle.before = obs.toggle.activate /\ obs.toggleClicks = 0

(***************************************************************************)
(* Properties of navigateToOwnerDashboard                                  *)
(***************************************************************************)

\* The last call on this client was a navigateToOwnerDashboard that returned.
DashboardReturned == outcome.op = "navigateToOwnerDashboard" /\ outcome.kind = "returned"

\* C24 as stated: on an initialized client navigateToOwnerDashboard returns
\* false without issuing any UI action whenever no login has been attempted
\* or the most recent login call on that client returned success=false.
C24_FalseUnlessLastLoginSucceeded ==
    (DashboardReturned /\ lastLogin # "succeeded") => ~outcome.value /\ ~obs.acted

\* C24, amended: on an initialized client navigateToOwnerDashboard issues a
\* UI action exactly when this.isLoggedIn is true, and returns false without
\* one otherwise. this.isLoggedIn is false, so the call returns false
\* without a UI action, whenever no login call has returned on that client or
\* the most recent one submitted the form and returned success=false; a
\* login call answered by its catch block leaves this.isLoggedIn as it was.
C24_FalseUnlessLoggedIn ==
    /\ lastLogin \in {"none", "rejected"} => ~isLoggedIn
    /\ DashboardReturned =>
         /\ obs.acted <=> isLoggedIn
         /\ ~isLoggedIn => ~outcome.value
         /\ lastLogin \in {"none", "rejected"} => ~outcome.value /\ ~obs.acted

\* C24 witness: the most recent login submitted the form and was rejected;
\* navigateToOwnerDashboard returned false without a UI action.
C24_Witness ==
    /\ DashboardReturned /\ lastLogin = "rejected"
    /\ ~outcome.value /\ ~obs.acted

\* C24, the case that departs from the statement: the most recent login
\* returned success=false from its catch block on a client logged in before,
\* and navigateToOwnerDashboard went to the site.
C24_WitnessStillLoggedIn ==
    /\ DashboardReturned /\ lastLogin = "error"
    /\ isLoggedIn /\ obs.acted /\ outcome.value

(***************************************************************************)
(* Properties of the browsers a client launches                            *)
(***************************************************************************)

\* The last call on this client was a close() that returned.
CloseReturned == outcome.op = "close" /\ outcome.kind = "returned"

\* C25: whatever initialize() and close() calls are made on one client, at
\* most one browser launched by it is open at any time, and after a close()
\* that returns none of its browsers is open.
C25_AtMostOneBrowserOpen ==
    /\ Cardinality(openBrowsers) <= 1
    /\ CloseReturned => openBrowsers = {}

\* C25, the part that holds: the browser that this.browser names is open,
\* and close() that returns has closed that one.
C25_OwnBrowserClosed ==
    /\ browser # NoHandle => browser \in openBrowsers
    /\ CloseReturned => browser = NoHandle

\* C25 witness: initialize() was called when the client already held a
\* browser, and close() has then returned: the second browser is closed and
\* the first, which no field names any more, is still open.
C25_Witness ==
    /\ CloseReturned /\ launched = 2
    /\ openBrowsers = {1}
    /\ browser = NoHandle
====
